---------------------------- MODULE Spec2Model ----------------------------
(***************************************************************************)
(* State-machine model of the openapi-zod router (OpenapiRouter), the      *)
(* endpoint index (OpenapiEndpoints), the definition registry              *)
(* (OpenapiRegistry) and the part of the document generator                *)
(* (OpenapiGenerator) that the router's self-describing endpoint runs.     *)
(*                                                                         *)
(* Conventions.  A path template is a sequence of segments, each either a  *)
(* literal or a placeholder {name}; a request pathname is a sequence of    *)
(* strings.  A zod schema is a chain of wrapper layers (outermost first)   *)
(* around a base kind, plus the openapi `param` metadata attached to it.   *)
(* A JavaScript value is a tagged record so that undefined, null, strings, *)
(* lists and parsed JSON objects can be compared with one another.         *)
(***************************************************************************)
EXTENDS Integers, Sequences, FiniteSets, TLC

\* Bounds of the model.
MaxQueryLen == 2    \* longest query string, in key=value pairs
MaxInflight == 2    \* handle() calls that may be suspended at the same time
MaxGen == 2         \* runs of the document creator that are followed

VARIABLES
  definitions,                  \* OpenapiRegistry._definitions
  routesByUppercasedMethodMap,  \* OpenapiRouter.routesByUppercasedMethodMap
  defaultValidationErrorHandler,\* OpenapiRouter.defaultValidationErrorHandler
  memoized,                     \* the `memoized` cell of memoizePromise
  created,                      \* number of runs of the creator given to memoizePromise
  handles,                      \* the suspended handle() calls, one per slot
  last,                         \* what the most recently completed handle() call did
  lastCall,                     \* the most recent get/post/... call and its error
  fetched,                      \* what the most recent openapiFetch call of the client did
  generated,                    \* the outcome of the most recent run of OpenapiGenerator
  endpointIndexes               \* the OpenapiEndpoints objects and the Maps they hold

vars == <<definitions, routesByUppercasedMethodMap,
          defaultValidationErrorHandler, memoized, created, handles, last, lastCall,
          fetched, generated, endpointIndexes>>

\* No client call and no generator run has been made.
NoFetched == [kind |-> "none"]
NoGenerated == [kind |-> "none"]

\* No OpenapiEndpoints object was built beyond the one given to the router.
NoIndexes == [kind |-> "none"]

----------------------------------------------------------------------------
\* Values, schemas and the schema library's validation

Undefined == [t |-> "undefined", s |-> "", l |-> <<>>]
Null == [t |-> "null", s |-> "", l |-> <<>>]
Str(s) == [t |-> "string", s |-> s, l |-> <<>>]
List(l) == [t |-> "array", s |-> "", l |-> l]
Json(s) == [t |-> "object", s |-> s, l |-> <<>>]

\* A schema: wrapper layers (outermost first) around a base kind, with the
\* openapi param metadata (name, in); "" stands for an absent field.
Schema(layers, base, paramName, paramIn) ==
  [layers |-> layers, base |-> base, paramName |-> paramName, paramIn |-> paramIn]

NoSchema == Schema(<<>>, "undefined", "", "")

Digits == {"7"}

\* ZodType.safeParse for the base kinds used by the endpoints below.
BaseAccepts(base, raw) ==
  CASE base = "string" -> raw.t = "string"
    [] base = "int" -> raw.t = "string" /\ raw.s \in Digits
    [] base = "array" -> raw.t = "array"
    [] base = "object" -> raw.t = "object" /\ raw.s = "good"
    [] OTHER -> FALSE

RECURSIVE LayersAccept(_, _, _)
LayersAccept(layers, base, raw) ==
  IF layers = <<>> THEN BaseAccepts(base, raw)
  ELSE LET outer == Head(layers) IN
       CASE outer = "optional" ->
              raw.t = "undefined" \/ LayersAccept(Tail(layers), base, raw)
         [] outer = "nullable" ->
              raw.t = "null" \/ LayersAccept(Tail(layers), base, raw)
         [] outer = "default" ->
              raw.t = "undefined" \/ LayersAccept(Tail(layers), base, raw)
         [] OTHER -> LayersAccept(Tail(layers), base, raw)

\* schema.safeParse(raw): success flag and, on success, the data.
safeParse(schema, raw) ==
  [success |-> LayersAccept(schema.layers, schema.base, raw), data |-> raw]

\* The mutant of unwrapZodType: optional and nullable layers are not unwrapped.
RECURSIVE unwrapZodType_KeepsOptional(_)
unwrapZodType_KeepsOptional(schema) ==
  IF schema.layers # <<>> /\ Head(schema.layers) \in {"default", "refinement"}
  THEN unwrapZodType_KeepsOptional([schema EXCEPT !.layers = Tail(schema.layers)])
  ELSE schema

\* unwrapZodType: strips optional, nullable, default and refinement layers
\* and stops at anything else (a transform or preprocess effect, the base).
RECURSIVE unwrapZodType(_)
unwrapZodType(schema) ==
  IF schema.layers # <<>> /\
     Head(schema.layers) \in {"optional", "nullable", "default", "refinement"}
  THEN unwrapZodType([schema EXCEPT !.layers = Tail(schema.layers)])
  ELSE schema

\* `x instanceof ZodArray`
IsZodArray(schema) == schema.layers = <<>> /\ schema.base = "array"

----------------------------------------------------------------------------
\* Route configurations and the request schema extraction

Lit(name) == [ph |-> FALSE, name |-> name]
Var(name) == [ph |-> TRUE, name |-> name]

Entry(key, schema) == [key |-> key, schema |-> schema]

\* An absent params/query/headers record and one without keys are both <<>>:
\* the router and the generator treat them alike.
RouteConfig(method, path, params, query, headers, body, responses) ==
  [method |-> method, path |-> path,
   request |-> [params |-> params, query |-> query, headers |-> headers, body |-> body],
   responses |-> responses]

extractRequestParamsSchema(config) == config.request.params

extractRequestQuerySchema(config) ==
  [i \in 1..Len(config.request.query) |->
     [key |-> config.request.query[i].key,
      schema |-> config.request.query[i].schema,
      isArray |-> IsZodArray(unwrapZodType(config.request.query[i].schema))]]

extractRequestHeadersSchema(config) == config.request.headers

extractRequestBodySchema(config) == config.request.body

\* The endpoint configurations given to OpenapiEndpoints.endpoint.
UsersListConfig ==
  RouteConfig("get", <<Lit("users"), Lit("list")>>, <<>>, <<>>, <<>>, NoSchema,
              {<<200, "application/json">>})

UserByIdConfig ==
  RouteConfig("get", <<Lit("users"), Var("id")>>,
              <<Entry("id", Schema(<<"preprocess">>, "int", "", ""))>>,
              <<Entry("tag", Schema(<<"optional", "refinement">>, "array", "", ""))>>,
              <<>>, NoSchema,
              {<<200, "application/json">>, <<404, "application/json">>})

\* The schema of `name` carries param metadata naming it "userName".
AnyTwoConfig ==
  RouteConfig("get", <<Var("section"), Var("name")>>,
              <<Entry("section", Schema(<<>>, "string", "", "")),
                Entry("name", Schema(<<>>, "string", "userName", ""))>>,
              <<Entry("tag", Schema(<<"preprocess">>, "string", "", ""))>>,
              <<>>, NoSchema,
              {<<200, "application/json">>})

ReplaceUserConfig ==
  RouteConfig("post", <<Lit("users"), Var("id")>>,
              <<Entry("id", Schema(<<"preprocess">>, "int", "", ""))>>,
              <<Entry("tag", Schema(<<>>, "string", "", ""))>>,
              <<Entry("x-key", Schema(<<>>, "string", "", "")),
                Entry("X-Trace", Schema(<<"optional">>, "string", "", ""))>>,
              Schema(<<>>, "object", "", ""),
              {<<200, "application/json">>})

EndpointConfigs == <<UsersListConfig, UserByIdConfig, AnyTwoConfig, ReplaceUserConfig>>

\* OpenapiEndpoints.endpoint: the endpoint built from a configuration.
Endpoint(config) ==
  [config |-> config,
   request |-> [query |-> extractRequestQuerySchema(config),
                params |-> extractRequestParamsSchema(config),
                headers |-> extractRequestParamsSchema(config),
                body |-> extractRequestBodySchema(config)]]

\* OpenapiEndpoints.endpointByPathByMethodMap after .endpoint(c) for every
\* configuration, keyed by path and method; the router only reads it.
endpoints ==
  [k \in {<<EndpointConfigs[i].path, EndpointConfigs[i].method>> :
            i \in 1..Len(EndpointConfigs)} |->
     Endpoint(CHOOSE c \in {EndpointConfigs[i] : i \in 1..Len(EndpointConfigs)} :
                <<c.path, c.method>> = k)]

\* OpenapiEndpoints.get: whether an endpoint is found, and the endpoint found.
EndpointsHas(index, path, method) == <<path, method>> \in DOMAIN index

EndpointsGet(index, path, method) == index[<<path, method>>]

----------------------------------------------------------------------------
\* The registry and the document generator

RouteDefinition(route) == [type |-> "route", route |-> route]

\* OpenapiRegistry.registerPath
registerPath(defs, route) == Append(defs, RouteDefinition(route))

\* The position of a definition type in generationOrder (findIndex).
GenerationOrderIndex(type) ==
  CASE type = "schema" -> 0
    [] type = "parameter" -> 1
    [] type = "route" -> 2
    [] OTHER -> -1

\* OpenapiGenerator.sortDefinitions: a stable sort on the generation order index.
sortDefinitions(defs) ==
  LET pick(i) == SelectSeq(defs, LAMBDA d : GenerationOrderIndex(d.type) = i)
  IN pick(-1) \o pick(0) \o pick(1) \o pick(2)

\* The first non-empty error of a sequence of errors, "" when there is none.
RECURSIVE FirstError(_)
FirstError(errors) ==
  IF errors = <<>> THEN ""
  ELSE IF Head(errors) # "" THEN Head(errors) ELSE FirstError(Tail(errors))

\* OpenapiGenerator.generateInlineParameters, for schemas that are not
\* registered parameters: the error thrown while mapping the entries.
generateInlineParameters(params, location) ==
  FirstError([i \in 1..Len(params) |->
    LET key == params[i].key
        schema == params[i].schema
    IN IF schema.paramName # "" /\ schema.paramName # key THEN "ConflictError name"
       ELSE IF schema.paramIn # "" /\ schema.paramIn # location THEN "ConflictError in"
       ELSE ""])

\* OpenapiGenerator.getParameters: query, then path, then header parameters.
getParameters(request) ==
  FirstError(<<generateInlineParameters(request.query, "query"),
               generateInlineParameters(request.params, "path"),
               generateInlineParameters(request.headers, "header")>>)

\* OpenapiGenerator.generateSingleRoute: the error thrown, or the path table entry.
generateSingleRoute(route) ==
  [error |-> getParameters(route.request), entry |-> <<route.path, route.method>>]

\* OpenapiGenerator.generateSingle
generateSingle(definition) ==
  IF definition.type = "route" THEN generateSingleRoute(definition.route)
  ELSE [error |-> "", entry |-> <<>>]

\* new OpenapiGenerator(defs).generateDocument(config): the first error aborts
\* the generation, otherwise the document holds the path table.
generateDocument(defs) ==
  LET sorted == sortDefinitions(defs)
      results == [i \in 1..Len(sorted) |-> generateSingle(sorted[i])]
      error == FirstError([i \in 1..Len(sorted) |-> results[i].error])
  IN [ok |-> error = "", error |-> error,
      paths |-> IF error = "" THEN {results[i].entry : i \in 1..Len(sorted)} \ {<<>>}
                ELSE {}]

----------------------------------------------------------------------------
\* The router: construction and registration

Upper(method) ==
  CASE method = "get" -> "GET"
    [] method = "post" -> "POST"
    [] method = "put" -> "PUT"
    [] method = "patch" -> "PATCH"
    [] method = "delete" -> "DELETE"

OpenapiSpecPath == <<Lit("docs"), Lit("openapi")>>

\* path !== path.replaceAll(/{([^}]+)}/g, ":$1")
HasPlaceholder(path) == \E i \in 1..Len(path) : path[i].ph

Route(path, hasUrlPattern, params, query, headers, body, errorHandler, handler) ==
  [path |-> path, hasUrlPattern |-> hasUrlPattern,
   paramSchemas |-> params, querySchemas |-> query, headerSchemas |-> headers,
   bodySchema |-> body, validationErrorHandler |-> errorHandler, handler |-> handler]

NoRoute == Route(<<>>, FALSE, <<>>, <<>>, <<>>, NoSchema, "undefined", "none")

EmptyRoutes == [byPathTemplateMap |-> <<>>, byPathMap |-> <<>>, patternList |-> <<>>]

DocsConfig ==
  RouteConfig("get", OpenapiSpecPath, <<>>, <<>>, <<>>, NoSchema,
              {<<200, "application/json">>})

\* OpenapiRouter.addRoute: the dispatch table after the call.
addRouteTable(table, config, route) ==
  LET upperCasedMethod == Upper(config.method)
      routes == IF upperCasedMethod \in DOMAIN table THEN table[upperCasedMethod]
                ELSE EmptyRoutes
      added ==
        [byPathTemplateMap |-> (config.path :> route) @@ routes.byPathTemplateMap,
         byPathMap |-> IF route.hasUrlPattern THEN routes.byPathMap
                       ELSE (route.path :> route) @@ routes.byPathMap,
         patternList |-> IF route.hasUrlPattern THEN Append(routes.patternList, route)
                         ELSE routes.patternList]
  IN (upperCasedMethod :> added) @@ table

\* OpenapiRouter.addRoute without its call of registry.registerPath.
addRouteDefinitions_Unregistered(defs, config) == defs

\* OpenapiRouter.addRoute: the registry's definitions after the call.
addRouteDefinitions(defs, config) == registerPath(defs, config)

\* The number of routes of a dispatch table.
NumRoutes(table) ==
  LET count[ms \in SUBSET DOMAIN table] ==
        IF ms = {} THEN 0
        ELSE LET m == CHOOSE x \in ms : TRUE
             IN Cardinality(DOMAIN table[m].byPathTemplateMap) + count[ms \ {m}]
  IN count[DOMAIN table]

----------------------------------------------------------------------------
\* Requests

Pathnames == {<<"users", "list">>, <<"users", "7">>, <<"docs", "openapi">>, <<"users">>}
QueryKeys == {"tag"}
QueryValues == {"a", "b"}
QueryStrings ==
  UNION {[1..n -> [key : QueryKeys, value : QueryValues]] : n \in 0..MaxQueryLen}
HeaderLists == {<<>>, <<[key |-> "x-key", value |-> "a"]>>}
\* A POST body is JSON the body schema accepts ("good"), JSON it rejects
\* ("bad") or no JSON at all ("malformed"); a GET request has no body.
Bodies == {"malformed", "good", "bad"}

Requests ==
  [method : {"GET"}, pathname : Pathnames, query : QueryStrings,
   headers : HeaderLists, body : {"none"}]
  \cup [method : {"POST"}, pathname : Pathnames, query : QueryStrings,
        headers : HeaderLists, body : Bodies]

\* The requests sent while other handle() calls are suspended.
ConcurrentRequests ==
  {r \in Requests :
     \/ r.method = "GET" /\ r.pathname = <<"docs", "openapi">> /\ r.query = <<>>
        /\ r.headers = <<>>
     \/ r.method = "POST" /\ r.pathname = <<"users", "7">>
        /\ r.query = <<[key |-> "tag", value |-> "a"]>> /\ r.headers # <<>>
        /\ r.body \in {"good", "malformed"}}

\* Headers stores and iterates header names in lower case.
LowerName(name) ==
  CASE name = "X-Key" -> "x-key"
    [] name = "X-Trace" -> "x-trace"
    [] OTHER -> name

\* Object.fromEntries(request.headers.entries()), as entries.
HeadersEntries(headers) ==
  [i \in 1..Len(headers) |-> [key |-> LowerName(headers[i].key), value |-> headers[i].value]]

\* record[key] on a record given by its entries: the value as a string, or undefined.
Lookup(entries, key) ==
  IF \E i \in 1..Len(entries) : entries[i].key = key
  THEN Str(entries[CHOOSE i \in 1..Len(entries) :
                     /\ entries[i].key = key
                     /\ \A j \in 1..(i - 1) : entries[j].key # key].value)
  ELSE Undefined

\* URLSearchParams.getAll
RECURSIVE getAll(_, _)
getAll(query, key) ==
  IF query = <<>> THEN <<>>
  ELSE IF Head(query).key = key THEN <<Head(query).value>> \o getAll(Tail(query), key)
       ELSE getAll(Tail(query), key)

\* URLSearchParams.get: the first value of the key, or null.
get(query, key) ==
  IF getAll(query, key) = <<>> THEN Null ELSE Str(Head(getAll(query, key)))

\* The pathname as the string a placeholder-free template would be.
Literal(pathname) == [i \in 1..Len(pathname) |-> Lit(pathname[i])]

\* URLPattern.test on the pathname: a placeholder matches one segment.
PatternTest(path, pathname) ==
  /\ Len(path) = Len(pathname)
  /\ \A i \in 1..Len(path) : path[i].ph \/ path[i].name = pathname[i]

\* URLPattern.exec(url).pathname.groups, as entries in template order.
RECURSIVE PatternGroups(_, _)
PatternGroups(path, pathname) ==
  IF path = <<>> THEN <<>>
  ELSE (IF Head(path).ph THEN <<[key |-> Head(path).name, value |-> Head(pathname)]>>
        ELSE <<>>) \o PatternGroups(Tail(path), Tail(pathname))

----------------------------------------------------------------------------
\* OpenapiRouter.handle: matching

NoMatch == [matched |-> FALSE, route |-> NoRoute, params |-> <<>>]

\* The mutant of find: the last matching pattern route is taken.
find_Last(patternList, pathname) ==
  LET hits == {i \in 1..Len(patternList) : PatternTest(patternList[i].path, pathname)}
  IN IF hits = {} THEN NoRoute
     ELSE patternList[CHOOSE i \in hits : \A j \in hits : j <= i]

\* routes.patternList.find((r) => r.urlPattern.test(url))
find(patternList, pathname) ==
  LET hits == {i \in 1..Len(patternList) : PatternTest(patternList[i].path, pathname)}
  IN IF hits = {} THEN NoRoute
     ELSE patternList[CHOOSE i \in hits : \A j \in hits : i <= j]

\* The mutant of MatchRoute: the pattern list is scanned before the exact map.
MatchRoute_PatternFirst(table, request) ==
  IF request.method \notin DOMAIN table THEN NoMatch
  ELSE LET routes == table[request.method]
           found == find(routes.patternList, request.pathname)
       IN IF found # NoRoute
          THEN [matched |-> TRUE, route |-> found,
                params |-> PatternGroups(found.path, request.pathname)]
          ELSE IF Literal(request.pathname) \in DOMAIN routes.byPathMap
          THEN [matched |-> TRUE, route |-> routes.byPathMap[Literal(request.pathname)],
                params |-> <<>>]
          ELSE NoMatch

\* The mutant of MatchRoute: a request that matches nothing goes to the first
\* pattern route of its method.
MatchRoute_CatchAll(table, request) ==
  IF request.method \notin DOMAIN table THEN NoMatch
  ELSE LET routes == table[request.method]
           found == find(routes.patternList, request.pathname)
       IN IF Literal(request.pathname) \in DOMAIN routes.byPathMap
          THEN [matched |-> TRUE, route |-> routes.byPathMap[Literal(request.pathname)],
                params |-> <<>>]
          ELSE IF found # NoRoute
          THEN [matched |-> TRUE, route |-> found,
                params |-> PatternGroups(found.path, request.pathname)]
          ELSE IF routes.patternList # <<>>
          THEN [matched |-> TRUE, route |-> Head(routes.patternList), params |-> <<>>]
          ELSE NoMatch

\* handle, from the lookup of the method's routes to the matched route and
\* the captured groups.
MatchRoute(table, request) ==
  IF request.method \notin DOMAIN table THEN NoMatch
  ELSE LET routes == table[request.method]
           found == find(routes.patternList, request.pathname)
       IN IF Literal(request.pathname) \in DOMAIN routes.byPathMap
          THEN [matched |-> TRUE, route |-> routes.byPathMap[Literal(request.pathname)],
                params |-> <<>>]
          ELSE IF found # NoRoute
          THEN [matched |-> TRUE, route |-> found,
                params |-> PatternGroups(found.path, request.pathname)]
          ELSE NoMatch

----------------------------------------------------------------------------
\* OpenapiRouter.handle: validation

Check(source, key, schema, raw) ==
  [source |-> source, key |-> key, schema |-> schema, raw |-> raw]

ParamChecks(route, params) ==
  [i \in 1..Len(route.paramSchemas) |->
     Check("params", route.paramSchemas[i].key, route.paramSchemas[i].schema,
           Lookup(params, route.paramSchemas[i].key))]

QueryChecks(route, query) ==
  [i \in 1..Len(route.querySchemas) |->
     Check("query", route.querySchemas[i].key, route.querySchemas[i].schema,
           IF route.querySchemas[i].isArray
           THEN List(getAll(query, route.querySchemas[i].key))
           ELSE get(query, route.querySchemas[i].key))]

HeaderChecks(route, headers) ==
  [i \in 1..Len(route.headerSchemas) |->
     Check("headers", route.headerSchemas[i].key, route.headerSchemas[i].schema,
           Lookup(HeadersEntries(headers), route.headerSchemas[i].key))]

BodyChecks(route, body) ==
  IF route.bodySchema # NoSchema THEN <<Check("body", "", route.bodySchema, body)>>
  ELSE <<>>

\* The safeParse calls of handle in the order the code reaches them.
Checks(route, request, params, body) ==
  ParamChecks(route, params) \o QueryChecks(route, request.query)
    \o HeaderChecks(route, request.headers) \o BodyChecks(route, body)

\* The validation loops with their early returns: the calls made up to and
\* including the first failing one.
Validate(route, request, params, body) ==
  LET checks == Checks(route, request, params, body)
      failing == {i \in 1..Len(checks) : ~safeParse(checks[i].schema, checks[i].raw).success}
      first == IF failing = {} THEN 0 ELSE CHOOSE i \in failing : \A j \in failing : i <= j
      made == IF first = 0 THEN checks ELSE SubSeq(checks, 1, first)
  IN [failed |-> first # 0,
      source |-> IF first = 0 THEN "" ELSE checks[first].source,
      log |-> [i \in 1..Len(made) |->
                 [source |-> made[i].source, key |-> made[i].key, raw |-> made[i].raw]]]

----------------------------------------------------------------------------
\* Responses

\* A generated document, identified by the run of the creator that made it.
NoDoc == [id |-> 0]

\* A typed response: new ServerResponse(status, mediaType, data, headers).
ServerResponse(status, mediaType, doc) ==
  [status |-> status, mediaType |-> mediaType, doc |-> doc]

NoTyped == ServerResponse(0, "", NoDoc)

\* genericResponderFactory(status, mediaType)(body, headers)
genericResponderFactory(status, mediaType) == ServerResponse(status, mediaType, NoDoc)

\* What handle ends with: a Response, or the rejection of the returned promise.
Outcome(kind, status, contentType, text, source, error, doc) ==
  [kind |-> kind, status |-> status, contentType |-> contentType, text |-> text,
   source |-> source, error |-> error, doc |-> doc]

NoOutcome == Outcome("none", 0, "", "", "", "", NoDoc)

Rejected(error) == Outcome("rejected", 0, "", "", "", error, NoDoc)

\* OpenapiRouter.notFound
notFound == Outcome("response", 404, "text/plain;charset=UTF-8", "Not found", "", "", NoDoc)

\* ServerResponse.toResponse, for a response built without a content-type header.
toResponse(typed) ==
  Outcome("response", typed.status, typed.mediaType, "", "", "", typed.doc)

\* The validation error handlers: the built-in default answers 400 with the
\* failing source; one given at construction or registration answers 422.
validationErrorHandler(handler, source) ==
  IF handler = "default"
  THEN Outcome("response", 400, "application/json", "Request validation failed", source, "", NoDoc)
  ELSE Outcome("response", 422, "text/plain;charset=UTF-8", handler, source, "", NoDoc)

\* The (status, media type) choices of a route handler.
HandlerStatuses == {200, 404}
HandlerMediaTypes == {"application/json"}

\* The handlers that may be given to the constructor and at registration.
ConstructorErrorHandlers == {"undefined"}
RouteErrorHandlers == {"undefined"}

----------------------------------------------------------------------------
\* What a handle() call did

Obs(request, matched, route, tableSize, errorHandler) ==
  [kind |-> "handle", request |-> request, matched |-> matched,
   path |-> route.path, pattern |-> route.hasUrlPattern, handler |-> route.handler,
   tableSize |-> tableSize, errorHandler |-> errorHandler,
   bodyRead |-> FALSE, log |-> <<>>, errorHandlerCalled |-> FALSE,
   handlerCalled |-> FALSE, responded |-> <<0, "">>, outcome |-> NoOutcome]

NoRequest ==
  [method |-> "", pathname |-> <<>>, query |-> <<>>, headers |-> <<>>, body |-> ""]

NoObs == [Obs(NoRequest, FALSE, NoRoute, 0, "") EXCEPT !.kind = "none"]

Idle == [pc |-> "idle", obs |-> NoObs, route |-> NoRoute, params |-> <<>>, typed |-> NoTyped]

NoCall == [method |-> "", path |-> <<>>, error |-> ""]

Slots == 1..MaxInflight

----------------------------------------------------------------------------
\* Initial state: new OpenapiRouter({endpoints, registry, defaultValidationErrorHandler})

Construct(given) ==
    /\ fetched = NoFetched
    /\ generated = NoGenerated
    /\ endpointIndexes = NoIndexes
    /\ definitions = addRouteDefinitions(<<>>, DocsConfig)
    /\ routesByUppercasedMethodMap =
         addRouteTable(<<>>, DocsConfig,
                       Route(OpenapiSpecPath, TRUE, <<>>, <<>>, <<>>, NoSchema, given, "docs"))
    /\ defaultValidationErrorHandler = IF given = "undefined" THEN "default" ELSE given
    /\ memoized = [set |-> FALSE, value |-> NoTyped]
    /\ created = 0
    /\ handles = [s \in Slots |-> Idle]
    /\ last = NoObs
    /\ lastCall = NoCall

Init == \E given \in ConstructorErrorHandlers : Construct(given)

----------------------------------------------------------------------------
\* The caller of the router

\* The result of the previous call has been taken by its caller.
Settled == last = NoObs /\ lastCall = NoCall

\* The caller takes the result of a call: the thrown error or the returned
\* router of a registration, the response or the rejection of handle.
Settle ==
  /\ ~Settled
  /\ last' = NoObs
  /\ lastCall' = NoCall
  /\ UNCHANGED <<fetched, generated, endpointIndexes>>
  /\ UNCHANGED <<definitions, routesByUppercasedMethodMap,
                 defaultValidationErrorHandler, memoized, created, handles>>

----------------------------------------------------------------------------
\* Registration: get / post / put / patch / delete

\* The mutant of Method: the duplicate check is missing.
Method_NoDuplicateCheck(method, path, errorHandler) ==
  /\ Settled
  /\ UNCHANGED <<defaultValidationErrorHandler, memoized, created, handles, last,
                 fetched, generated, endpointIndexes>>
  /\ IF ~EndpointsHas(endpoints, path, method)
     THEN /\ lastCall' = [method |-> method, path |-> path,
                          error |-> "Defect: endpoint not found"]
          /\ UNCHANGED <<routesByUppercasedMethodMap, definitions>>
     ELSE LET config == EndpointsGet(endpoints, path, method).config
              route == Route(path, HasPlaceholder(path),
                             extractRequestParamsSchema(config),
                             extractRequestQuerySchema(config),
                             extractRequestHeadersSchema(config),
                             extractRequestBodySchema(config), errorHandler, "user")
          IN /\ lastCall' = [method |-> method, path |-> path, error |-> ""]
             /\ routesByUppercasedMethodMap' =
                  addRouteTable(routesByUppercasedMethodMap, config, route)
             /\ definitions' = addRouteDefinitions(definitions, config)

\* OpenapiRouter.method followed by addRoute.
Method(method, path, errorHandler) ==
  /\ Settled
  /\ UNCHANGED <<defaultValidationErrorHandler, memoized, created, handles, last,
                 fetched, generated, endpointIndexes>>
  /\ IF /\ Upper(method) \in DOMAIN routesByUppercasedMethodMap
        /\ path \in DOMAIN routesByUppercasedMethodMap[Upper(method)].byPathTemplateMap
     THEN /\ lastCall' = [method |-> method, path |-> path, error |-> "Duplicate route"]
          /\ UNCHANGED <<routesByUppercasedMethodMap, definitions>>
     ELSE IF ~EndpointsHas(endpoints, path, method)
     THEN /\ lastCall' = [method |-> method, path |-> path,
                          error |-> "Defect: endpoint not found"]
          /\ UNCHANGED <<routesByUppercasedMethodMap, definitions>>
     ELSE LET config == EndpointsGet(endpoints, path, method).config
              route == Route(path, HasPlaceholder(path),
                             extractRequestParamsSchema(config),
                             extractRequestQuerySchema(config),
                             extractRequestHeadersSchema(config),
                             extractRequestBodySchema(config), errorHandler, "user")
          IN /\ lastCall' = [method |-> method, path |-> path, error |-> ""]
             /\ routesByUppercasedMethodMap' =
                  addRouteTable(routesByUppercasedMethodMap, config, route)
             /\ definitions' = addRouteDefinitions(definitions, config)

----------------------------------------------------------------------------
\* The registry and the arrays of its definitions

\* The registries: two parents, in this order, and the registry built on them.
Parents == <<"first", "second">>
Registries == {"first", "second", "own"}

\* The definitions of the parents of a registry, in the order of the parents:
\* this.parents?.flatMap((par) => par.definitions) ?? [].
parentDefinitions(registry, name) ==
  IF name = "own" THEN registry[Parents[1]] \o registry[Parents[2]] ELSE <<>>

\* The get accessor `definitions`, handing out the registry's own array.
getDefinitions_Own(registry, name) ==
  [of |-> name, items |-> registry[name]]

\* The get accessor `definitions` of a registry: the definitions of its
\* parents, then its own, in a new array.
getDefinitions(registry, name) ==
  [of |-> "new", items |-> parentDefinitions(registry, name) \o registry[name]]

\* this.sortDefinitions() of the generator's constructor sorts the array it
\* was given in place: an array the accessor made is not an array of a
\* registry, the _definitions of a registry is.
sortInPlace(registry, array) ==
  IF array.of \in Registries
  THEN [registry EXCEPT ![array.of] = sortDefinitions(array.items)]
  ELSE registry

\* The registry the router was constructed with, which has no parents' definitions.
RouterRegistry(defs) == [name \in Registries |-> IF name = "own" THEN defs ELSE <<>>]

\* The definitions of the router's registry after
\* new OpenapiGenerator(registry.definitions) of the document route.
definitionsAfterGenerator(defs) ==
  sortInPlace(RouterRegistry(defs), getDefinitions(RouterRegistry(defs), "own"))["own"]

\* routesByUppercasedMethodMap.get(request.method), creating the table of a
\* method that has none as addRoute does.
tableAfterGet_Create(table, method) ==
  IF method \in DOMAIN table THEN table
  ELSE (method :> EmptyRoutes) @@ table

\* The dispatch table after routesByUppercasedMethodMap.get(request.method)
\* of handle: a Map's get leaves the Map as it is.
tableAfterGet(table, method) == table

----------------------------------------------------------------------------
\* Serving: OpenapiRouter.handle

\* handle returns (or its promise rejects): the slot is free again.
Complete(s, obs) ==
  /\ last' = obs
  /\ handles' = [handles EXCEPT ![s] = Idle]

\* The handler of the document route suspends handle on the memoized promise.
Suspend(s, pc, obs, route, params, typed) ==
  /\ handles' = [handles EXCEPT ![s] = [pc |-> pc, obs |-> obs, route |-> route,
                                         params |-> params, typed |-> typed]]
  /\ last' = last

\* handle from the validation of the channels to the call of the route
\* handler: the validation error handler's response, the user handler's
\* response, or the call of memorizedDocs().
ValidateAndDispatch(s, obs, route, params, body) ==
  LET v == Validate(route, obs.request, params, body)
      validated == [obs EXCEPT !.log = v.log]
  IN IF v.failed
     THEN /\ Complete(s, [validated EXCEPT
                            !.errorHandlerCalled = TRUE,
                            !.outcome = validationErrorHandler(obs.errorHandler, v.source)])
          /\ UNCHANGED <<memoized, created, definitions>>
     ELSE IF route.handler = "docs"
     THEN IF memoized.set
          THEN /\ Suspend(s, "handler", [validated EXCEPT !.handlerCalled = TRUE],
                          route, params, memoized.value)
               /\ UNCHANGED <<memoized, created, definitions>>
          ELSE /\ created < MaxGen
               /\ created' = created + 1
               /\ definitions' = definitionsAfterGenerator(definitions)
               /\ LET document == generateDocument(definitions)
                      typed == ServerResponse(200, "application/json",
                                              [id |-> created + 1])
                  IN IF document.ok
                     THEN /\ memoized' = [set |-> TRUE, value |-> typed]
                          /\ Suspend(s, "handler", [validated EXCEPT !.handlerCalled = TRUE],
                                     route, params, typed)
                     ELSE /\ memoized' = memoized
                          /\ Complete(s, [validated EXCEPT
                                            !.handlerCalled = TRUE,
                                            !.outcome = Rejected(document.error)])
     ELSE \E status \in HandlerStatuses, mediaType \in HandlerMediaTypes :
            /\ Complete(s, [validated EXCEPT
                              !.handlerCalled = TRUE,
                              !.responded = <<status, mediaType>>,
                              !.outcome =
                                 toResponse(genericResponderFactory(status, mediaType))])
            /\ UNCHANGED <<memoized, created, definitions>>

\* matchedRoute.validationErrorHandler ?? this.defaultValidationErrorHandler,
\* with the global handler tried first.
EffectiveErrorHandler_GlobalFirst(route, global) ==
  IF global # "default" THEN global
  ELSE IF route.validationErrorHandler # "undefined" THEN route.validationErrorHandler
  ELSE global

\* matchedRoute.validationErrorHandler ?? this.defaultValidationErrorHandler
EffectiveErrorHandler(route, global) ==
  IF route.validationErrorHandler # "undefined" THEN route.validationErrorHandler
  ELSE global

\* handle up to its first suspension: no match answers 404; a route with a
\* body schema awaits request.json(); any other goes on to the validation.
HandleBegin(s, request) ==
  /\ Settled
  /\ handles[s].pc = "idle"
  /\ UNCHANGED <<defaultValidationErrorHandler, lastCall, fetched, generated, endpointIndexes>>
  /\ routesByUppercasedMethodMap' =
       tableAfterGet(routesByUppercasedMethodMap, request.method)
  /\ LET m == MatchRoute(routesByUppercasedMethodMap, request)
         errorHandler == EffectiveErrorHandler(m.route, defaultValidationErrorHandler)
         obs == Obs(request, m.matched, m.route,
                    NumRoutes(routesByUppercasedMethodMap), errorHandler)
     IN IF ~m.matched
        THEN /\ Complete(s, [obs EXCEPT !.errorHandler = "", !.outcome = notFound])
             /\ UNCHANGED <<memoized, created, definitions>>
        ELSE IF m.route.bodySchema # NoSchema
        THEN /\ Suspend(s, "json", [obs EXCEPT !.bodyRead = TRUE], m.route, m.params,
                        NoTyped)
             /\ UNCHANGED <<memoized, created, definitions>>
        ELSE ValidateAndDispatch(s, obs, m.route, m.params, Undefined)

\* request.json() settles: a body that is not JSON rejects handle, a parsed
\* body goes on to the validation.
HandleJson(s) ==
  /\ Settled
  /\ handles[s].pc = "json"
  /\ UNCHANGED <<routesByUppercasedMethodMap, defaultValidationErrorHandler, lastCall,
                 fetched, generated, endpointIndexes>>
  /\ IF handles[s].obs.request.body = "malformed"
     THEN /\ Complete(s, [handles[s].obs EXCEPT !.outcome = Rejected("SyntaxError")])
          /\ UNCHANGED <<memoized, created, definitions>>
     ELSE ValidateAndDispatch(s, handles[s].obs, handles[s].route, handles[s].params,
                              Json(handles[s].obs.request.body))

\* The handler's promise settles: typedResponse.toResponse().
HandleReturn(s) ==
  /\ Settled
  /\ handles[s].pc = "handler"
  /\ Complete(s, [handles[s].obs EXCEPT
                    !.responded = <<handles[s].typed.status, handles[s].typed.mediaType>>,
                    !.outcome = toResponse(handles[s].typed)])
  /\ UNCHANGED <<definitions, routesByUppercasedMethodMap,
                 defaultValidationErrorHandler, memoized, created, lastCall,
                 fetched, generated, endpointIndexes>>

----------------------------------------------------------------------------
\* Specifications

RegistrationMethods == {"get", "post"}
RegistrationPaths ==
  {EndpointConfigs[i].path : i \in 1..Len(EndpointConfigs)} \cup {OpenapiSpecPath}

Register ==
  \E method \in RegistrationMethods, path \in RegistrationPaths,
     errorHandler \in RouteErrorHandlers :
    Method(method, path, errorHandler)

\* No handle() call is suspended.
Quiet == \A s \in Slots : handles[s].pc = "idle"

\* Calls made one at a time: a registration or a request starts when the
\* previous request has been answered.
Next ==
  \/ Quiet /\ Register
  \/ \E request \in Requests : HandleBegin(1, request)
  \/ HandleJson(1)
  \/ HandleReturn(1)
  \/ Settle

Spec == Init /\ [][Next]_vars

\* Up to MaxInflight handle() calls suspended at the same time, registrations
\* of the routes they ask for in between.
ConcurrentRegistrationPaths == {UserByIdConfig.path, OpenapiSpecPath}

RegisterConcurrent ==
  \E method \in RegistrationMethods, path \in ConcurrentRegistrationPaths,
     errorHandler \in RouteErrorHandlers :
    Method(method, path, errorHandler)

NextConcurrent ==
  \/ RegisterConcurrent
  \/ \E s \in Slots, request \in ConcurrentRequests : HandleBegin(s, request)
  \/ \E s \in Slots : HandleJson(s)
  \/ \E s \in Slots : HandleReturn(s)
  \/ Settle

SpecConcurrent == Init /\ [][NextConcurrent]_vars

\* A router constructed with or without a validation error handler, routes
\* registered with or without their own, and requests whose header names are
\* written in any letter case.
OptionErrorHandlers == {"undefined", "global"}
OptionRouteErrorHandlers == {"undefined", "route"}
OptionPaths == {UserByIdConfig.path}
OptionHeaderLists ==
  {<<>>,
   <<[key |-> "X-Key", value |-> "a"]>>,
   <<[key |-> "x-key", value |-> "a"], [key |-> "X-Trace", value |-> "b"]>>,
   <<[key |-> "x-key", value |-> "a"], [key |-> "x-trace", value |-> "b"]>>}
OptionRequests ==
  {r \in [method : {"GET", "POST"},
          pathname : {<<"users", "7">>, <<"users", "list">>, <<"docs", "openapi">>},
          query : {q \in QueryStrings : Len(q) <= 1}, headers : OptionHeaderLists,
          body : {"none", "good", "bad"}] :
     r.body = "none" <=> r.method = "GET"}

InitOptions == \E given \in OptionErrorHandlers : Construct(given)

RegisterOptions ==
  \E method \in RegistrationMethods, path \in OptionPaths,
     errorHandler \in OptionRouteErrorHandlers :
    Method(method, path, errorHandler)

NextOptions ==
  \/ Quiet /\ RegisterOptions
  \/ \E request \in OptionRequests : HandleBegin(1, request)
  \/ HandleJson(1)
  \/ HandleReturn(1)
  \/ Settle

SpecOptions == InitOptions /\ [][NextOptions]_vars

TypeOK ==
  /\ created \in 0..MaxGen
  /\ \A s \in Slots : handles[s].pc \in {"idle", "json", "handler"}
  /\ last.kind \in {"none", "handle"}

----------------------------------------------------------------------------
\* Vocabulary of the properties

Lower(method) == IF method = "GET" THEN "get" ELSE "post"

\* The last handle() call ran against the dispatch table as it is now.
Fresh == last.kind = "handle" /\ last.tableSize = NumRoutes(routesByUppercasedMethodMap)

\* The route configuration the matched route of the last call was declared with.
DeclaredConfig ==
  IF last.handler = "docs" THEN DocsConfig
  ELSE EndpointsGet(endpoints, last.path, Lower(last.request.method)).config

\* The values of a key in a query string, in order of occurrence.
ValuesOf(query, key) ==
  LET hits == SelectSeq(query, LAMBDA e : e.key = key)
  IN [i \in 1..Len(hits) |-> hits[i].value]

\* The schema is an array under optional/nullable/default/refinement layers only.
DeclaredArray(schema) ==
  /\ schema.base = "array"
  /\ \A i \in 1..Len(schema.layers) :
       schema.layers[i] \in {"optional", "nullable", "default", "refinement"}

\* The schema declared for a key in a sequence of entries.
DeclaredSchema(entries, key) ==
  entries[CHOOSE i \in 1..Len(entries) : entries[i].key = key].schema

\* The position of a channel in the order params, query, headers, body.
Rank(source) ==
  CASE source = "params" -> 1
    [] source = "query" -> 2
    [] source = "headers" -> 3
    [] source = "body" -> 4
    [] OTHER -> 5

\* Whether a channel of the last request fails its declared schemas.
ChannelFails(source) ==
  LET request == last.request
      config == DeclaredConfig
      route == routesByUppercasedMethodMap[request.method].byPathTemplateMap[last.path]
      groups == IF last.pattern THEN PatternGroups(last.path, request.pathname) ELSE <<>>
  IN CASE source = "params" ->
            \E i \in 1..Len(config.request.params) :
              ~safeParse(config.request.params[i].schema,
                         Lookup(groups, config.request.params[i].key)).success
       [] source = "query" ->
            \E i \in 1..Len(config.request.query) :
              LET e == config.request.query[i]
              IN ~safeParse(e.schema,
                            IF DeclaredArray(e.schema) THEN List(ValuesOf(request.query, e.key))
                            ELSE IF ValuesOf(request.query, e.key) = <<>> THEN Null
                            ELSE Str(ValuesOf(request.query, e.key)[1])).success
       [] source = "headers" ->
            \E i \in 1..Len(config.request.headers) :
              ~safeParse(config.request.headers[i].schema,
                         Lookup(HeadersEntries(request.headers),
                                LowerName(config.request.headers[i].key))).success
       [] source = "body" ->
            /\ config.request.body # NoSchema
            /\ \/ request.body = "malformed"
               \/ ~safeParse(config.request.body, Json(request.body)).success

Channels == {"params", "query", "headers", "body"}

FailingChannels == {c \in Channels : ChannelFails(c)}

FirstFailing == CHOOSE c \in FailingChannels : \A d \in FailingChannels : Rank(c) <= Rank(d)

\* The first failing channel decided the response of the last call.
FirstFailureDecides ==
  /\ \A i \in 1..Len(last.log) : Rank(last.log[i].source) <= Rank(FirstFailing)
  /\ \A i, j \in 1..Len(last.log) :
       i <= j => Rank(last.log[i].source) <= Rank(last.log[j].source)
  /\ last.errorHandlerCalled
  /\ last.outcome.kind = "response"
  /\ last.outcome.source = FirstFailing
  /\ ~last.handlerCalled

----------------------------------------------------------------------------
\* Properties

\* C1: for a matched route the channels are validated in the order params,
\* query, headers, body; the first channel that fails determines the response
\* (the validation error handler is called with that channel's name), no later
\* channel is validated and the route handler is not invoked.
C1_FirstFailingChannelDecides ==
  (Fresh /\ last.matched /\ FailingChannels # {}) => FirstFailureDecides

\* The same for the requests whose body is JSON: the order holds whenever
\* request.json() resolves.
ValidationOrderWhenBodyParses ==
  (Fresh /\ last.matched /\ FailingChannels # {} /\ last.request.body # "malformed")
    => FirstFailureDecides

\* The routes registered for the method of the last request that the pathname
\* satisfies, as positions in the registry's definitions (registration order).
MatchingDefinitions ==
  {i \in 1..Len(definitions) :
     /\ definitions[i].type = "route"
     /\ Upper(definitions[i].route.method) = last.request.method
     /\ PatternTest(definitions[i].route.path, last.request.pathname)}

\* A placeholder-free route registered for the method and pathname of the last
\* request.
ExactRouteRegistered ==
  \E i \in MatchingDefinitions : ~HasPlaceholder(definitions[i].route.path)

\* C2: when a placeholder-free route equal to the request's pathname is
\* registered for the method, the request is dispatched to that route and never
\* to a pattern route, whatever the order of registration.
C2_ExactRouteWins ==
  (Fresh /\ ExactRouteRegistered)
    => /\ last.matched
       /\ last.path = Literal(last.request.pathname)
       /\ ~HasPlaceholder(last.path)

\* An exact route won against a pattern route registered before it.
C2_Witness ==
  /\ Fresh
  /\ last.matched
  /\ last.path = Literal(last.request.pathname)
  /\ last.handler = "user"
  /\ \E i, j \in MatchingDefinitions :
       /\ i < j
       /\ HasPlaceholder(definitions[i].route.path)
       /\ definitions[j].route.path = last.path

\* C3: when no exact route matches, the request is dispatched to the pattern
\* route registered earliest among those whose pattern the pathname satisfies.
C3_FirstRegisteredPatternWins ==
  (Fresh /\ ~ExactRouteRegistered /\ MatchingDefinitions # {})
    => /\ last.matched
       /\ \E i \in MatchingDefinitions :
            /\ \A j \in MatchingDefinitions : i <= j
            /\ last.path = definitions[i].route.path

\* Two pattern routes matched and the one registered first was chosen.
C3_Witness ==
  /\ Fresh
  /\ ~ExactRouteRegistered
  /\ Cardinality(MatchingDefinitions) >= 2
  /\ last.matched
  /\ \E i \in MatchingDefinitions :
       /\ \A j \in MatchingDefinitions : i <= j
       /\ last.path = definitions[i].route.path

\* C4: a request whose method has no registered route, or whose pathname
\* matches no exact and no pattern route, is answered 404 "Not found"; its body
\* is not read, nothing is validated and no handler of either kind is called.
C4_UnmatchedIs404 ==
  (Fresh /\ MatchingDefinitions = {})
    => /\ ~last.matched
       /\ last.outcome.kind = "response"
       /\ last.outcome.status = 404
       /\ last.outcome.text = "Not found"
       /\ ~last.bodyRead
       /\ last.log = <<>>
       /\ ~last.handlerCalled
       /\ ~last.errorHandlerCalled

\* A request with a body for a method that has routes, none of them matching.
C4_Witness ==
  /\ Fresh
  /\ MatchingDefinitions = {}
  /\ last.request.method = "POST"
  /\ last.request.body = "malformed"
  /\ "POST" \in DOMAIN routesByUppercasedMethodMap
  /\ last.outcome.status = 404
  /\ ~last.bodyRead

\* The (method, path template) pairs of a dispatch table, one per stored route.
RoutePairs(table) ==
  UNION {{<<m, table[m].patternList[i].path>> : i \in 1..Len(table[m].patternList)}
           \cup {<<m, p>> : p \in DOMAIN table[m].byPathMap} : m \in DOMAIN table}

\* No (method, path template) pair is served by two routes: the three indexes
\* of every method agree and the registry holds one definition per route.
AtMostOneRoutePerPair ==
  /\ \A m \in DOMAIN routesByUppercasedMethodMap :
       LET entry == routesByUppercasedMethodMap[m]
           patternPaths == {entry.patternList[i].path : i \in 1..Len(entry.patternList)}
       IN /\ \A i, j \in 1..Len(entry.patternList) :
               entry.patternList[i].path = entry.patternList[j].path => i = j
          /\ patternPaths \cap DOMAIN entry.byPathMap = {}
          /\ DOMAIN entry.byPathTemplateMap = patternPaths \cup DOMAIN entry.byPathMap
  /\ \A i, j \in 1..Len(definitions) :
       (/\ definitions[i].route.method = definitions[j].route.method
        /\ definitions[i].route.path = definitions[j].route.path) => i = j
  /\ {<<Upper(definitions[i].route.method), definitions[i].route.path>> :
        i \in 1..Len(definitions)} = RoutePairs(routesByUppercasedMethodMap)

\* A registration call for a pair that already has a route throws and leaves
\* the dispatch table and the registry as they were.
DuplicateRegistrationThrows ==
  (/\ lastCall' # lastCall
   /\ lastCall'.method # ""
   /\ <<Upper(lastCall'.method), lastCall'.path>> \in RoutePairs(routesByUppercasedMethodMap))
    => /\ lastCall'.error = "Duplicate route"
       /\ UNCHANGED <<routesByUppercasedMethodMap, definitions>>

\* C5: registering a route for a (method, path template) pair that already has
\* one, the self-describing document route included, throws a duplicate-route
\* error, so no pair is ever served by two routes.
C5_NoDuplicateRoutes ==
  []AtMostOneRoutePerPair /\ [][DuplicateRegistrationThrows]_vars

\* The document route of the constructor was registered a second time.
C5_Witness ==
  /\ lastCall.error = "Duplicate route"
  /\ lastCall.path = OpenapiSpecPath
  /\ lastCall.method = "get"
  /\ NumRoutes(routesByUppercasedMethodMap) = Len(definitions)

\* C6: the generation of the OpenAPI document runs exactly once: requests to
\* the document route never start it again, and every response to them carries
\* the document of that single run.
C6_GeneratedExactlyOnce ==
  /\ created <= 1
  /\ (last.kind = "handle" /\ last.handler = "docs" /\ last.outcome.kind = "response"
        /\ last.outcome.status = 200)
       => last.outcome.doc.id = 1

\* While the registered definitions generate without an error the document is
\* generated at most once, concurrent first requests included.
GeneratedOnceWhenGenerationSucceeds ==
  generateDocument(definitions).ok
    => /\ created <= 1
       /\ \A s \in Slots : handles[s].pc = "handler" => handles[s].typed.doc.id = 1
       /\ memoized.set => memoized.value.doc.id = 1

\* C7: a request for a route with a body schema whose body is not JSON gets a
\* 4xx response, like any other invalid input; handle() does not fail.
C7_MalformedBodyAnswered ==
  (Fresh /\ last.matched /\ last.bodyRead /\ last.request.body = "malformed")
    => /\ last.outcome.kind = "response"
       /\ last.outcome.status \in 400..499

\* C8: no request is served while the registered definitions cannot be
\* generated into a document, and a generation error never surfaces as the
\* outcome of a handle() call.
C8_NoServingOfInvalidDefinitions ==
  last.kind = "handle"
    => /\ generateDocument(definitions).ok
       /\ last.outcome.error \notin {"ConflictError"}

\* C9: the (status, media type) pair of the response a route handler builds with
\* the responder is one of the pairs the route's configuration declares.
C9_OnlyDeclaredResponses ==
  (Fresh /\ last.handlerCalled /\ last.outcome.kind = "response")
    => last.responded \in DeclaredConfig.responses

\* C10: a query parameter is validated against the list of all the values of
\* its key exactly when its declared schema, with optional, nullable, default
\* and refinement layers removed, is an array; otherwise against the first
\* occurrence of the key, or null when the key is absent.
C10_QueryArrayOrFirst ==
  (Fresh /\ last.matched)
    => \A i \in 1..Len(last.log) :
         last.log[i].source = "query"
           => LET key == last.log[i].key
                  schema == DeclaredSchema(DeclaredConfig.request.query, key)
                  values == ValuesOf(last.request.query, key)
              IN last.log[i].raw =
                   IF DeclaredArray(schema) THEN List(values)
                   ELSE IF values = <<>> THEN Null
                   ELSE Str(values[1])

\* A key given twice was validated as the list of both values, in order.
C10_Witness ==
  /\ Fresh
  /\ last.matched
  /\ \E i \in 1..Len(last.log) :
       /\ last.log[i].source = "query"
       /\ last.log[i].key = "tag"
       /\ last.log[i].raw = List(<<"a", "b">>)
       /\ DeclaredArray(DeclaredSchema(DeclaredConfig.request.query, "tag"))
       /\ ~IsZodArray(DeclaredSchema(DeclaredConfig.request.query, "tag"))

\* A key given twice was validated as its first value only.
FirstOccurrenceValidated ==
  /\ Fresh
  /\ last.matched
  /\ Len(last.request.query) = 2
  /\ \E i \in 1..Len(last.log) :
       /\ last.log[i].source = "query"
       /\ last.log[i].raw = Str(last.request.query[1].value)
       /\ last.request.query[2].value # last.request.query[1].value

\* The values of the request headers whose name is the key up to letter case.
HeaderValuesIgnoringCase(headers, key) ==
  {headers[i].value : i \in {j \in 1..Len(headers) : LowerName(headers[j].key) = LowerName(key)}}

\* C11: header parameters are validated case-insensitively: when the request
\* carries a header whose name equals a declared key up to letter case, the
\* value validated against the key's schema is that header's value, whatever
\* the casing of the key in the declaration.
C11_HeadersCaseInsensitive ==
  (Fresh /\ last.matched)
    => \A i \in 1..Len(last.log) :
         last.log[i].source = "headers"
           => \A value \in HeaderValuesIgnoringCase(last.request.headers, last.log[i].key) :
                last.log[i].raw = Str(value)

\* The same for the keys declared in lower case only: for those the header is
\* found whatever the casing of its name in the request.
LowerCaseHeaderKeysFound ==
  (Fresh /\ last.matched)
    => \A i \in 1..Len(last.log) :
         (last.log[i].source = "headers" /\ last.log[i].key = LowerName(last.log[i].key))
           => \A value \in HeaderValuesIgnoringCase(last.request.headers, last.log[i].key) :
                last.log[i].raw = Str(value)

\* The route the last request was dispatched to.
MatchedRoute ==
  routesByUppercasedMethodMap[last.request.method].byPathTemplateMap[last.path]

\* C12: on a validation failure the response is produced by the route's own
\* validation error handler when one was given at registration, otherwise by
\* the handler given to the constructor, otherwise by the built-in default:
\* status 400 and a JSON body with the message "Request validation failed" and
\* the failing channel as source.
C12_ErrorHandlerPrecedence ==
  (Fresh /\ last.errorHandlerCalled)
    => /\ last.outcome.kind = "response"
       /\ last.outcome.source = FirstFailing
       /\ IF MatchedRoute.validationErrorHandler # "undefined"
          THEN last.outcome.text = MatchedRoute.validationErrorHandler
          ELSE IF defaultValidationErrorHandler # "default"
          THEN last.outcome.text = defaultValidationErrorHandler
          ELSE /\ last.outcome.status = 400
               /\ last.outcome.contentType = "application/json"
               /\ last.outcome.text = "Request validation failed"

\* A route with its own handler failed validation in a router that also has a
\* handler given to the constructor: the route's handler answered.
C12_Witness ==
  /\ Fresh
  /\ last.errorHandlerCalled
  /\ MatchedRoute.validationErrorHandler = "route"
  /\ defaultValidationErrorHandler = "global"
  /\ last.outcome.text = "route"

\* The handler given to the constructor answered for a route without its own.
GlobalHandlerAnswered ==
  /\ Fresh
  /\ last.errorHandlerCalled
  /\ MatchedRoute.validationErrorHandler = "undefined"
  /\ last.outcome.text = "global"

\* The built-in default answered 400.
DefaultHandlerAnswered ==
  /\ Fresh
  /\ last.errorHandlerCalled
  /\ last.outcome.status = 400
  /\ last.outcome.source = "headers"

----------------------------------------------------------------------------
\* The outbound client: OpenapiClient.endpoint and openapiFetch

\* One status of the `responses` of a route configuration: the declared
\* header schemas (when `headers` is given) and the content by media type; a
\* media type whose schema is not a zod schema has NoSchema.
ResponseConfig(status, hasHeaders, headers, content) ==
  [status |-> status, hasHeaders |-> hasHeaders, headers |-> headers, content |-> content]

Media(mediaType, schema) == [mediaType |-> mediaType, schema |-> schema]

ClientConfig(method, path, hasResponses, responses) ==
  [method |-> method, path |-> path, hasResponses |-> hasResponses, responses |-> responses]

ObjectSchema == Schema(<<>>, "object", "", "")
StringSchema == Schema(<<>>, "string", "", "")
IntSchema == Schema(<<"preprocess">>, "int", "", "")

\* The endpoint configurations of the client's index.
ItemConfig ==
  ClientConfig("get", <<Lit("items"), Var("id")>>, TRUE,
    <<ResponseConfig(200, TRUE,
                     <<Entry("x-rate", IntSchema), Entry("x-id", StringSchema)>>,
                     <<Media("application/json", ObjectSchema)>>),
      ResponseConfig(404, FALSE, <<>>,
                     <<Media("application/json", ObjectSchema),
                       Media("application/pdf", NoSchema)>>),
      ResponseConfig(204, FALSE, <<>>, <<>>)>>)

FileConfig ==
  ClientConfig("get", <<Lit("files"), Var("id")>>, TRUE,
    <<ResponseConfig(200, TRUE, <<Entry("x-rate", IntSchema)>>,
                     <<Media("application/pdf", NoSchema),
                       Media("text/plain", StringSchema)>>)>>)

HealthConfig == ClientConfig("get", <<Lit("healthz")>>, FALSE, <<>>)

ClientConfigs == <<ItemConfig, FileConfig, HealthConfig>>

\* The flat list built by the flatMap of extractResponseSchemaMap: one entry
\* per status and media type of the responses that have content.
RECURSIVE ResponseEntries(_)
ResponseEntries(responses) ==
  IF responses = <<>> THEN <<>>
  ELSE LET response == Head(responses)
           headerSchemaList ==
             IF response.hasHeaders
             THEN SelectSeq(response.headers, LAMBDA e : e.schema # NoSchema)
             ELSE <<>>
       IN [i \in 1..Len(response.content) |->
             [statusCode |-> response.status,
              mediaType |-> response.content[i].mediaType,
              bodySchema |-> response.content[i].schema,
              headerSchemaList |-> headerSchemaList]]
          \o ResponseEntries(Tail(responses))

\* extractResponseSchemaMap: undefined without `responses`, else the map
\* status -> media type -> {body, headers}, given by its entries.
extractResponseSchemaMap(config) ==
  [defined |-> config.hasResponses,
   entries |-> IF config.hasResponses THEN ResponseEntries(config.responses) ELSE <<>>]

\* responseBodyMap.get(status)?.get(contentType): the entry set last.
SchemasHas(map, status, contentType) ==
  \E i \in 1..Len(map.entries) :
    map.entries[i].statusCode = status /\ map.entries[i].mediaType = contentType

SchemasGet(map, status, contentType) ==
  map.entries[CHOOSE i \in 1..Len(map.entries) :
                /\ map.entries[i].statusCode = status
                /\ map.entries[i].mediaType = contentType
                /\ \A j \in (i + 1)..Len(map.entries) :
                     ~(map.entries[j].statusCode = status
                       /\ map.entries[j].mediaType = contentType)]

\* The endpoint of the client's index for a path and method.
ClientEndpointsHas(path, method) ==
  \E i \in 1..Len(ClientConfigs) :
    ClientConfigs[i].path = path /\ ClientConfigs[i].method = method

ClientEndpointsGet(path, method) ==
  LET config == ClientConfigs[CHOOSE i \in 1..Len(ClientConfigs) :
                                ClientConfigs[i].path = path
                                /\ ClientConfigs[i].method = method]
  IN [config |-> config, response |-> [body |-> extractResponseSchemaMap(config)]]

\* encodeURIComponent on the parameter values of the model.
encodeURIComponent(value) == IF value = "a b" THEN "a%20b" ELSE value

\* A segment of a request path: text, or a placeholder left as it was.
Rendered(text) == [text |-> text, placeholder |-> FALSE]
Unrendered(name) == [text |-> name, placeholder |-> TRUE]

ParamsHas(params, key) == \E i \in 1..Len(params) : params[i].key = key
ParamsGet(params, key) ==
  params[CHOOSE i \in 1..Len(params) : params[i].key = key].value

\* renderPath with a params record: the keys of the placeholders missing from
\* the record, in template order, and the path with every placeholder replaced.
MissingKeys(template, params) ==
  SelectSeq([i \in 1..Len(template) |-> template[i]],
            LAMBDA seg : seg.ph /\ ~ParamsHas(params, seg.name))

renderPath(template, params) ==
  [i \in 1..Len(template) |->
     IF template[i].ph THEN Rendered(encodeURIComponent(ParamsGet(params, template[i].name)))
     ELSE Rendered(template[i].name)]

\* The template used as the path when no params record is given.
AsWritten(template) ==
  [i \in 1..Len(template) |->
     IF template[i].ph THEN Unrendered(template[i].name) ELSE Rendered(template[i].name)]

\* The request argument of a client call: absent, or with or without a params
\* record.
ClientRequest(given, hasParams, params) ==
  [given |-> given, hasParams |-> hasParams, params |-> params]

Param(key, value) == [key |-> key, value |-> value]

ClientRequests ==
  {ClientRequest(FALSE, FALSE, <<>>),
   ClientRequest(TRUE, FALSE, <<>>),
   ClientRequest(TRUE, TRUE, <<>>),
   ClientRequest(TRUE, TRUE, <<Param("id", "7")>>),
   ClientRequest(TRUE, TRUE, <<Param("id", "a b")>>),
   ClientRequest(TRUE, TRUE, <<Param("name", "7")>>)}

\* The responses of the server: the content-type header ("" when the response
\* has none), the other headers and the body as in Bodies.
ResponseStatuses == {200, 404, 500}
ContentTypes == {"", "application/json", "application/pdf", "text/plain"}
ResponseHeaderLists ==
  {<<>>,
   <<[key |-> "x-rate", value |-> "7"]>>,
   <<[key |-> "x-rate", value |-> "7"], [key |-> "x-id", value |-> "a"]>>,
   <<[key |-> "x-rate", value |-> "a"], [key |-> "x-id", value |-> "a"]>>}
Responses ==
  [status : ResponseStatuses, contentType : ContentTypes,
   headers : ResponseHeaderLists, body : Bodies]
NoResponse == [status |-> 0, contentType |-> "", headers |-> <<>>, body |-> ""]

\* response.headers.get(name): the value, or null.
HeadersGet(headers, name) ==
  LET found == Lookup(HeadersEntries(headers), LowerName(name))
  IN IF found = Undefined THEN Null ELSE found

\* The body as openapiFetch reads it: parsed JSON, text, or the stream.
Text(s) == [t |-> "string", s |-> s, l |-> <<>>]
Stream(s) == [t |-> "stream", s |-> s, l |-> <<>>]
ReadBody(response) ==
  IF response.contentType = "application/json" THEN Json(response.body)
  ELSE IF response.contentType \in {"text/plain"} THEN Text(response.body)
  ELSE Stream(response.body)

\* The headers of a ClientResponse: the transport's Headers object, or the
\* record of the validated values.
RawHeaders(headers) == [validated |-> FALSE, entries |-> HeadersEntries(headers)]
ValidatedHeaders(list, headers) ==
  [validated |-> TRUE,
   entries |-> [i \in 1..Len(list) |->
                  [key |-> list[i].key,
                   value |-> safeParse(list[i].schema, HeadersGet(headers, list[i].key)).data]]]
NoHeaders == [validated |-> FALSE, entries |-> <<>>]

\* A client call: its arguments, the request sent, the response received, the
\* safeParse calls made on the response, and the ClientResponse returned or
\* the error thrown.
ClientCall(method, template, request) ==
  [kind |-> "sent", method |-> method, template |-> template, request |-> request,
   path |-> <<>>, response |-> NoResponse, log |-> <<>>,
   error |-> "", detail |-> "", carried |-> Undefined,
   status |-> 0, mediaType |-> "", data |-> Undefined, headers |-> NoHeaders,
   ok |-> FALSE]

\* The positions of the declared headers that fail their schema.
FailingHeaders(list, headers) ==
  {i \in 1..Len(list) : ~safeParse(list[i].schema, HeadersGet(headers, list[i].key)).success}

\* The last of a set of positions.
Min_Last(set) == CHOOSE i \in set : \A j \in set : i >= j

\* The first of a set of positions: the map over the header schemas throws at
\* the first header that fails.
Min(set) == CHOOSE i \in set : \A j \in set : i <= j

\* OpenapiClient.endpoint and openapiFetch up to the call of fetch.
ClientEndpoint(method, path, request) ==
  /\ fetched.kind # "sent"
  /\ UNCHANGED <<definitions, routesByUppercasedMethodMap, defaultValidationErrorHandler,
                 memoized, created, handles, last, lastCall, generated, endpointIndexes>>
  /\ LET call == ClientCall(method, path, request)
     IN IF ~ClientEndpointsHas(path, method)
        THEN fetched' = [call EXCEPT !.kind = "threw",
                                     !.error = "Defect: no endpoint found"]
        ELSE IF request.hasParams
        THEN IF MissingKeys(path, request.params) # <<>>
             THEN fetched' = [call EXCEPT !.kind = "threw",
                                          !.error = "Expected path key",
                                          !.detail = Head(MissingKeys(path, request.params)).name]
             ELSE fetched' = [call EXCEPT !.path = renderPath(path, request.params)]
        ELSE fetched' = [call EXCEPT !.path = AsWritten(path)]

\* openapiFetch from the response of fetch to its return.
ClientReceive(response) ==
  /\ fetched.kind = "sent"
  /\ UNCHANGED <<definitions, routesByUppercasedMethodMap, defaultValidationErrorHandler,
                 memoized, created, handles, last, lastCall, generated, endpointIndexes>>
  /\ LET call == [fetched EXCEPT !.response = response]
         responseBodyMap == ClientEndpointsGet(fetched.template, fetched.method).response.body
         ok == response.status \in 200..299
     IN IF ~responseBodyMap.defined
        THEN fetched' = [call EXCEPT !.kind = "returned", !.status = response.status,
                                     !.mediaType = "", !.data = Stream(response.body),
                                     !.headers = RawHeaders(response.headers), !.ok = ok]
        ELSE IF response.contentType = "application/json" /\ response.body = "malformed"
        THEN fetched' = [call EXCEPT !.kind = "threw", !.error = "SyntaxError"]
        ELSE IF \/ response.contentType = ""
                \/ ~SchemasHas(responseBodyMap, response.status, response.contentType)
        THEN fetched' = [call EXCEPT !.kind = "threw",
                                     !.error = "OpenapiClientUnexpectedResponseError",
                                     !.carried = ReadBody(response)]
        ELSE LET schemas == SchemasGet(responseBodyMap, response.status, response.contentType)
                 list == schemas.headerSchemaList
                 failing == FailingHeaders(list, response.headers)
                 checked == IF failing = {} THEN Len(list) ELSE Min(failing)
                 headerLog == [i \in 1..checked |-> list[i].key]
             IN IF failing # {}
                THEN fetched' = [call EXCEPT
                                   !.kind = "threw",
                                   !.error = "OpenapiClientResponseHeaderValidationError",
                                   !.detail = list[Min(failing)].key,
                                   !.carried = HeadersGet(response.headers,
                                                          list[Min(failing)].key),
                                   !.log = headerLog]
                ELSE IF schemas.bodySchema # NoSchema
                THEN IF safeParse(schemas.bodySchema, ReadBody(response)).success
                     THEN fetched' = [call EXCEPT
                                        !.kind = "returned", !.status = response.status,
                                        !.mediaType = response.contentType,
                                        !.data = ReadBody(response),
                                        !.headers = ValidatedHeaders(list, response.headers),
                                        !.ok = ok, !.log = Append(headerLog, "body")]
                     ELSE fetched' = [call EXCEPT
                                        !.kind = "threw",
                                        !.error = "OpenapiClientResponseValidationError",
                                        !.carried = ReadBody(response),
                                        !.log = Append(headerLog, "body")]
                ELSE fetched' = [call EXCEPT
                                   !.kind = "returned", !.status = response.status,
                                   !.mediaType = response.contentType,
                                   !.data = ReadBody(response),
                                   !.headers = RawHeaders(response.headers),
                                   !.ok = ok, !.log = headerLog]

\* A client used on its own: calls made one after the other.
ClientPaths == {ClientConfigs[i].path : i \in 1..Len(ClientConfigs)}

InitClient == Construct("undefined")

NextClient ==
  \/ \E method \in RegistrationMethods, path \in ClientPaths, request \in ClientRequests :
       ClientEndpoint(method, path, request)
  \/ \E response \in Responses : ClientReceive(response)

SpecClient == InitClient /\ [][NextClient]_vars

----------------------------------------------------------------------------
\* Properties of the client

\* The last client call received a response and has ended.
Answered == fetched.kind \in {"returned", "threw"} /\ fetched.response # NoResponse

\* The configuration of the endpoint of the last client call.
FetchedConfig == ClientEndpointsGet(fetched.template, fetched.method).config

\* The declarations of the configuration for the status of the response that
\* have the response's content type among their media types.
DeclaredFor(config, response) ==
  {i \in 1..Len(config.responses) :
     /\ config.hasResponses
     /\ config.responses[i].status = response.status
     /\ \E j \in 1..Len(config.responses[i].content) :
          config.responses[i].content[j].mediaType = response.contentType}

\* The header schemas and the body schema declared for the response.
DeclaredHeaders(config, response) ==
  LET declaration == config.responses[CHOOSE i \in DeclaredFor(config, response) : TRUE]
  IN IF declaration.hasHeaders THEN declaration.headers ELSE <<>>

DeclaredBody(config, response) ==
  LET declaration == config.responses[CHOOSE i \in DeclaredFor(config, response) : TRUE]
  IN declaration.content[CHOOSE j \in 1..Len(declaration.content) :
       declaration.content[j].mediaType = response.contentType].schema

HeaderFails(entry, response) ==
  ~safeParse(entry.schema, HeadersGet(response.headers, entry.key)).success

\* C13: the client returns a typed response only when the (status,
\* content-type) of the response is declared for the endpoint; a response
\* without content-type, or with a combination that is not declared, raises
\* OpenapiClientUnexpectedResponseError carrying the parsed body.
C13_OnlyDeclaredCombinationsReturned ==
  Answered
    => LET declared == /\ fetched.response.contentType # ""
                       /\ DeclaredFor(FetchedConfig, fetched.response) # {}
       IN /\ fetched.kind = "returned" => declared
          /\ ~declared => /\ fetched.kind = "threw"
                          /\ fetched.error = "OpenapiClientUnexpectedResponseError"
                          /\ fetched.carried = ReadBody(fetched.response)

\* The same for the endpoints that declare responses and the responses whose
\* body can be read.
UnexpectedWhenResponsesDeclared ==
  (/\ Answered
   /\ FetchedConfig.hasResponses
   /\ ~(fetched.response.contentType = "application/json"
        /\ fetched.response.body = "malformed"))
    => LET declared == /\ fetched.response.contentType # ""
                       /\ DeclaredFor(FetchedConfig, fetched.response) # {}
       IN /\ fetched.kind = "returned" => declared
          /\ ~declared => /\ fetched.kind = "threw"
                          /\ fetched.error = "OpenapiClientUnexpectedResponseError"
                          /\ fetched.carried = ReadBody(fetched.response)

\* The response of the last call is of a declared combination and its body
\* was read.
Classified ==
  /\ Answered
  /\ fetched.response.contentType # ""
  /\ DeclaredFor(FetchedConfig, fetched.response) # {}
  /\ ~(fetched.response.contentType = "application/json"
       /\ fetched.response.body = "malformed")

\* C14: the declared response headers are validated before the body: when a
\* declared header fails its schema the error is the header validation error
\* of the first failing header in declaration order, whatever the body; the
\* body validation error is raised only when every declared header validates.
C14_HeadersBeforeBody ==
  Classified
    => LET list == DeclaredHeaders(FetchedConfig, fetched.response)
           failing == {i \in 1..Len(list) : HeaderFails(list[i], fetched.response)}
       IN /\ failing # {}
               => /\ fetched.kind = "threw"
                  /\ fetched.error = "OpenapiClientResponseHeaderValidationError"
                  /\ \E i \in failing : /\ fetched.detail = list[i].key
                                        /\ \A j \in failing : i <= j
                  /\ \A k \in 1..Len(fetched.log) : fetched.log[k] # "body"
          /\ fetched.error = "OpenapiClientResponseValidationError" => failing = {}
          /\ \A k \in 1..Len(fetched.log) : fetched.log[k] = "body" => k = Len(fetched.log)

\* Two declared headers and the body all fail: the first header is reported.
C14_Witness ==
  /\ Classified
  /\ fetched.error = "OpenapiClientResponseHeaderValidationError"
  /\ fetched.response.body = "bad"
  /\ DeclaredBody(FetchedConfig, fetched.response) # NoSchema
  /\ Cardinality({i \in 1..Len(DeclaredHeaders(FetchedConfig, fetched.response)) :
                    HeaderFails(DeclaredHeaders(FetchedConfig, fetched.response)[i],
                                fetched.response)}) = 2
  /\ fetched.detail = DeclaredHeaders(FetchedConfig, fetched.response)[1].key

\* The body error was raised after every declared header validated.
BodyErrorAfterHeaders ==
  /\ Classified
  /\ fetched.error = "OpenapiClientResponseValidationError"
  /\ fetched.log = <<"x-rate", "x-id", "body">>

\* C15: a successful response carries the validated header values when header
\* schemas are declared for its status and media type, and the raw transport
\* headers when none is declared, whether or not a body schema is declared.
C15_ValidatedOrRawHeaders ==
  (Classified /\ fetched.kind = "returned")
    => LET list == DeclaredHeaders(FetchedConfig, fetched.response)
       IN IF list # <<>>
          THEN /\ fetched.headers.validated
               /\ fetched.headers.entries =
                    [i \in 1..Len(list) |->
                       [key |-> list[i].key,
                        value |-> HeadersGet(fetched.response.headers, list[i].key)]]
          ELSE fetched.headers = RawHeaders(fetched.response.headers)

\* The same for the two cases the code treats as the claim says: header
\* schemas with a body schema, and neither of them.
HeadersFollowBodySchema ==
  (Classified /\ fetched.kind = "returned")
    => LET list == DeclaredHeaders(FetchedConfig, fetched.response)
           body == DeclaredBody(FetchedConfig, fetched.response)
       IN /\ (list # <<>> /\ body # NoSchema) => fetched.headers.validated
          /\ (list = <<>> /\ body = NoSchema)
               => fetched.headers = RawHeaders(fetched.response.headers)

\* The placeholders of the template of the last call that the request gives
\* no value for.
Unsupplied ==
  {i \in 1..Len(fetched.template) :
     /\ fetched.template[i].ph
     /\ \/ ~fetched.request.hasParams
        \/ ~ParamsHas(fetched.request.params, fetched.template[i].name)}

\* C16: when the path template has a placeholder the request supplies no value
\* for (the key is missing from the params record, or there is no params
\* record), the call fails with an error naming the key and no request is
\* sent; no request is sent with an unrendered placeholder in its path.
C16_MissingPlaceholderFails ==
  (fetched.kind # "none" /\ ClientEndpointsHas(fetched.template, fetched.method))
    => /\ Unsupplied # {}
            => /\ fetched.kind = "threw"
               /\ fetched.error = "Expected path key"
               /\ \E i \in Unsupplied : fetched.detail = fetched.template[i].name
               /\ fetched.response = NoResponse
       /\ \A i \in 1..Len(fetched.path) : ~fetched.path[i].placeholder

\* The same for the calls that give a params record.
MissingKeyThrowsWithParamsRecord ==
  (/\ fetched.kind # "none"
   /\ ClientEndpointsHas(fetched.template, fetched.method)
   /\ fetched.request.hasParams)
    => /\ Unsupplied # {}
            => /\ fetched.kind = "threw"
               /\ fetched.error = "Expected path key"
               /\ \E i \in Unsupplied : fetched.detail = fetched.template[i].name
               /\ fetched.response = NoResponse
       /\ \A i \in 1..Len(fetched.path) : ~fetched.path[i].placeholder

----------------------------------------------------------------------------
\* The document generator on zod schemas: OpenapiGenerator

\* A zod schema as the generator sees it: its kind, the openapi metadata
\* (refId, extendedFrom, param name and location; "" when absent), whether it
\* is wrapped in ZodOptional or ZodNullable (both wrappers keep the metadata
\* of what they wrap), the shape of an object, the item of an array or the
\* options of a discriminated union, the discriminator, and the value of a
\* literal.
ZodType(kind, shape, options, discriminator) ==
  [kind |-> kind, refId |-> "", extendedFrom |-> "", paramName |-> "", paramIn |-> "",
   optional |-> FALSE, nullable |-> FALSE, value |-> "",
   shape |-> shape, options |-> options, discriminator |-> discriminator]

ZodString == ZodType("string", <<>>, <<>>, "")
ZodNumber == ZodType("number", <<>>, <<>>, "")
ZodBoolean == ZodType("boolean", <<>>, <<>>, "")
ZodSymbol == ZodType("symbol", <<>>, <<>>, "")
ZodLiteral(value) == [ZodType("literal", <<>>, <<>>, "") EXCEPT !.value = value]
ZodObject(shape) == ZodType("object", shape, <<>>, "")
ZodArray(item) == ZodType("array", <<>>, <<item>>, "")
ZodDiscriminatedUnion(discriminator, options) ==
  ZodType("discriminatedUnion", <<>>, options, discriminator)

Prop(key, schema) == [key |-> key, schema |-> schema]

\* schema.optional(), schema.nullable()
optional(schema) == [schema EXCEPT !.optional = TRUE]
nullable(schema) == [schema EXCEPT !.nullable = TRUE]

\* OpenapiRegistry.register(refId, schema): schema.openapi({refId})
register(refId, schema) == [schema EXCEPT !.refId = refId]

\* OpenapiRegistry.registerParameter(refId, schema): the metadata gets the
\* refId and, when the schema names no parameter, the refId as its name.
registerParameter(refId, schema) ==
  [schema EXCEPT !.refId = refId,
                 !.paramName = IF schema.paramName # "" THEN schema.paramName ELSE refId]

\* schema.openapi({param: {name, in}})
openapiParam(schema, name, location) ==
  [schema EXCEPT !.paramName = IF name # "" THEN name ELSE schema.paramName,
                 !.paramIn = IF location # "" THEN location ELSE schema.paramIn]

ShapeHas(shape, key) == \E i \in 1..Len(shape) : shape[i].key = key
ShapeGet(shape, key) == shape[CHOOSE i \in 1..Len(shape) : shape[i].key = key].schema

\* parent.extend(augmentation) on a schema that went through openapi(): the
\* keys of the parent in their order, overridden by the augmentation, then the
\* new keys; the only metadata of the result is extendedFrom.
extend(parent, augmentation) ==
  [ZodObject(
     [i \in 1..Len(parent.shape) |->
        IF ShapeHas(augmentation, parent.shape[i].key)
        THEN Prop(parent.shape[i].key, ShapeGet(augmentation, parent.shape[i].key))
        ELSE parent.shape[i]]
     \o SelectSeq(augmentation, LAMBDA e : ~ShapeHas(parent.shape, e.key)))
   EXCEPT !.extendedFrom = parent.refId]

\* A node of the generated document; "" and <<>> stand for absent fields.
EmptyNode ==
  [ref |-> "", type |-> "", nullable |-> FALSE, hasProperties |-> FALSE,
   properties |-> <<>>, required |-> <<>>, items |-> <<>>, oneOf |-> <<>>,
   allOf |-> <<>>, discriminator |-> "", enum |-> <<>>, error |-> ""]

RefNode(refId) == [EmptyNode EXCEPT !.ref = refId]
TypeNode(type, isNullable) == [EmptyNode EXCEPT !.type = type, !.nullable = isNullable]
ErrorNode(error) == [EmptyNode EXCEPT !.error = error]
NodeProp(key, node) == [key |-> key, node |-> node]

\* The error thrown while the nodes of a sequence were generated, in order.
RECURSIVE FirstNodeError(_)
FirstNodeError(nodes) ==
  IF nodes = <<>> THEN ""
  ELSE IF Head(nodes).error # "" THEN Head(nodes).error ELSE FirstNodeError(Tail(nodes))

PropertiesHas(properties, key) == \E i \in 1..Len(properties) : properties[i].key = key
PropertiesGet(properties, key) ==
  properties[CHOOSE i \in 1..Len(properties) : properties[i].key = key].node

RECURSIVE generateSimpleSchema(_, _)
RECURSIVE toOpenapiSchema(_, _, _)
RECURSIVE toOpenapiObjectSchema(_, _, _)

\* generateSimpleSchema without the look-up of the schema-ref table.
generateSimpleSchema_Inline(schemaRefs, zodSchema) ==
  toOpenapiSchema(schemaRefs, zodSchema, zodSchema.nullable)

\* OpenapiGenerator.generateSimpleSchema (and generateInnerSchema, which adds
\* nothing when it is given no metadata): a schema whose refId is in the
\* schema-ref table becomes a reference, any other is converted.
generateSimpleSchema(schemaRefs, zodSchema) ==
  IF zodSchema.refId # "" /\ zodSchema.refId \in DOMAIN schemaRefs
  THEN IF zodSchema.nullable
       THEN [EmptyNode EXCEPT !.allOf = <<RefNode(zodSchema.refId),
                                          [EmptyNode EXCEPT !.nullable = TRUE]>>]
       ELSE RefNode(zodSchema.refId)
  ELSE toOpenapiSchema(schemaRefs, zodSchema, zodSchema.nullable)

\* [...zodSchema.options.values()], last option first.
UnionOptions_Reversed(zodSchema) ==
  [i \in 1..Len(zodSchema.options) |-> zodSchema.options[Len(zodSchema.options) + 1 - i]]

\* [...zodSchema.options.values()]
UnionOptions(zodSchema) == zodSchema.options

\* {type: "array", items}, or the error thrown while the item was generated.
ArrayNode(items) ==
  IF items.error # "" THEN items
  ELSE [EmptyNode EXCEPT !.type = "array", !.items = <<items>>]

\* {oneOf, discriminator: {propertyName}}, or the error thrown while the
\* options were generated.
UnionNode(oneOf, discriminator) ==
  IF FirstNodeError(oneOf) # "" THEN ErrorNode(FirstNodeError(oneOf))
  ELSE [EmptyNode EXCEPT !.oneOf = oneOf, !.discriminator = discriminator]

\* OpenapiGenerator.toOpenapiSchema
toOpenapiSchema(schemaRefs, zodSchema, isNullable) ==
  CASE zodSchema.kind \in {"string", "number", "boolean"} ->
         TypeNode(zodSchema.kind, isNullable)
    [] zodSchema.kind = "literal" ->
         [TypeNode("string", isNullable) EXCEPT !.enum = <<zodSchema.value>>]
    [] zodSchema.kind = "object" -> toOpenapiObjectSchema(schemaRefs, zodSchema, isNullable)
    [] zodSchema.kind = "array" ->
         ArrayNode(generateSimpleSchema(schemaRefs, zodSchema.options[1]))
    [] zodSchema.kind = "discriminatedUnion" ->
         UnionNode([i \in 1..Len(zodSchema.options) |->
                      generateSimpleSchema(schemaRefs, UnionOptions(zodSchema)[i])],
                   zodSchema.discriminator)
    [] OTHER -> ErrorNode("UnknownZodTypeError")

\* toOpenapiObjectSchema once the properties are generated.
ObjectSchemaNode(schemaRefs, zodSchema, isNullable, schemaProperties) ==
  LET extendedFrom == zodSchema.extendedFrom
      requiredProperties == SelectSeq(zodSchema.shape, LAMBDA e : ~e.schema.optional)
      propertyError ==
        FirstNodeError([i \in 1..Len(schemaProperties) |-> schemaProperties[i].node])
      registered == IF extendedFrom # "" /\ extendedFrom \in DOMAIN schemaRefs
                    THEN schemaRefs[extendedFrom] ELSE EmptyNode
      alreadyRegistered ==
        {registered.properties[i].key : i \in
           {j \in 1..Len(registered.properties) :
              /\ PropertiesHas(schemaProperties, registered.properties[j].key)
              /\ PropertiesGet(schemaProperties, registered.properties[j].key)
                   = registered.properties[j].node}}
      alreadyRequired == {registered.required[i] : i \in 1..Len(registered.required)}
      properties == SelectSeq(schemaProperties, LAMBDA e : e.key \notin alreadyRegistered)
      additionallyRequired ==
        SelectSeq([i \in 1..Len(requiredProperties) |-> requiredProperties[i].key],
                  LAMBDA key : key \notin alreadyRequired)
      objectData == [EmptyNode EXCEPT !.type = "object", !.hasProperties = TRUE,
                                      !.properties = properties,
                                      !.nullable = isNullable,
                                      !.required = additionallyRequired]
  IN IF propertyError # "" THEN ErrorNode(propertyError)
     ELSE IF extendedFrom = "" THEN objectData
     ELSE IF extendedFrom \notin DOMAIN schemaRefs
     THEN ErrorNode("Attempt to extend an unregistered schema")
     ELSE [EmptyNode EXCEPT !.allOf = <<RefNode(extendedFrom), objectData>>]

\* OpenapiGenerator.toOpenapiObjectSchema
toOpenapiObjectSchema(schemaRefs, zodSchema, isNullable) ==
  ObjectSchemaNode(schemaRefs, zodSchema, isNullable,
                   [i \in 1..Len(zodSchema.shape) |->
                      NodeProp(zodSchema.shape[i].key,
                               generateSimpleSchema(schemaRefs, zodSchema.shape[i].schema))])

\* table[key] = value on a table given as a function.
Put(table, key, value) ==
  [k \in DOMAIN table \cup {key} |-> IF k = key THEN value ELSE table[k]]

\* this.schemaRefs[refId] = result
SchemaDefined(schemaRefs, refId, result) ==
  [error |-> result.error,
   node |-> result,
   schemaRefs |-> IF result.error = "" /\ refId # ""
                  THEN Put(schemaRefs, refId, result)
                  ELSE schemaRefs]

\* OpenapiGenerator.generateSchemaDefinition: the generated node, entered in
\* the schema-ref table under the refId.
generateSchemaDefinition(schemaRefs, zodSchema) ==
  SchemaDefined(schemaRefs, zodSchema.refId, generateSimpleSchema(schemaRefs, zodSchema))

\* A parameter of the generated document: a reference to a registered
\* parameter or {in, name, schema, required}; or the error thrown, a
\* ConflictError with its key and its values.
EmptyParameter ==
  [ref |-> "", in |-> "", name |-> "", required |-> FALSE, schema |-> EmptyNode,
   error |-> "", key |-> "", values |-> <<>>]

ParameterRef(refId) == [EmptyParameter EXCEPT !.ref = refId]
ParameterError(error) == [EmptyParameter EXCEPT !.error = error]
ConflictError(key, values) ==
  [EmptyParameter EXCEPT !.error = "ConflictError", !.key = key, !.values = values]

\* compact(values): the values that are present.
compact(values) == SelectSeq(values, LAMBDA v : v # "")

\* {in, name, schema, required} of generateParameter.
ParameterObject(zodSchema, schema) ==
  IF schema.error # "" THEN ParameterError(schema.error)
  ELSE [EmptyParameter EXCEPT !.in = zodSchema.paramIn,
                              !.name = zodSchema.paramName,
                              !.schema = schema,
                              !.required = ~zodSchema.optional /\ ~zodSchema.nullable]

\* OpenapiGenerator.generateParameter
generateParameter(schemaRefs, zodSchema) ==
  IF zodSchema.paramName = "" THEN ParameterError("MissingParameterDataError name")
  ELSE IF zodSchema.paramIn = "" THEN ParameterError("MissingParameterDataError in")
  ELSE ParameterObject(zodSchema, generateSimpleSchema(schemaRefs, zodSchema))

\* this.paramRefs[refId] = result
ParameterDefined(paramRefs, refId, result) ==
  [error |-> result.error,
   paramRefs |-> IF result.error = "" /\ refId # ""
                 THEN Put(paramRefs, refId, result)
                 ELSE paramRefs]

\* OpenapiGenerator.generateParameterDefinition
generateParameterDefinition(paramRefs, schemaRefs, zodSchema) ==
  ParameterDefined(paramRefs, zodSchema.refId, generateParameter(schemaRefs, zodSchema))

\* getParameterRef with the name compared before the location.
getParameterRef_NameFirst(paramRefs, zodSchema, location, name) ==
  IF zodSchema.refId = "" \/ zodSchema.refId \notin DOMAIN paramRefs THEN EmptyParameter
  ELSE LET existingRef == paramRefs[zodSchema.refId]
       IN IF existingRef.name # zodSchema.paramName \/ existingRef.name # name
          THEN ConflictError("name", compact(<<existingRef.name, name, zodSchema.paramName>>))
          ELSE IF existingRef.in # zodSchema.paramIn \/ existingRef.in # location
          THEN ConflictError("in", compact(<<existingRef.in, location, zodSchema.paramIn>>))
          ELSE ParameterRef(zodSchema.refId)

\* OpenapiGenerator.getParameterRef(metadata, {in: location, name}): undefined
\* (the empty parameter) when the schema is not a registered parameter, else a
\* conflict of location, a conflict of name, or the reference.
getParameterRef(paramRefs, zodSchema, location, name) ==
  IF zodSchema.refId = "" \/ zodSchema.refId \notin DOMAIN paramRefs THEN EmptyParameter
  ELSE LET existingRef == paramRefs[zodSchema.refId]
       IN IF existingRef.in # zodSchema.paramIn \/ existingRef.in # location
          THEN ConflictError("in", compact(<<existingRef.in, location, zodSchema.paramIn>>))
          ELSE IF existingRef.name # zodSchema.paramName \/ existingRef.name # name
          THEN ConflictError("name", compact(<<existingRef.name, name, zodSchema.paramName>>))
          ELSE ParameterRef(zodSchema.refId)

\* The callback of the map of generateInlineParameters, for one entry, once
\* getParameterRef returned.
InlineParameterOr(referencedSchema, schemaRefs, key, zodSchema, location) ==
  IF referencedSchema # EmptyParameter THEN referencedSchema
  ELSE IF zodSchema.paramName # "" /\ zodSchema.paramName # key
  THEN ConflictError("name", <<key, zodSchema.paramName>>)
  ELSE IF zodSchema.paramIn # "" /\ zodSchema.paramIn # location
  THEN ConflictError("in", <<location, zodSchema.paramIn>>)
  ELSE generateParameter(schemaRefs, openapiParam(zodSchema, key, location))

\* The callback of the map of generateInlineParameters, for one entry.
InlineParameter(paramRefs, schemaRefs, key, zodSchema, location) ==
  InlineParameterOr(getParameterRef(paramRefs, zodSchema, location, key),
                    schemaRefs, key, zodSchema, location)

\* OpenapiGenerator.generateInlineParameters on zod schemas.
InlineParameters(paramRefs, schemaRefs, params, location) ==
  [i \in 1..Len(params) |->
     InlineParameter(paramRefs, schemaRefs, params[i].key, params[i].schema, location)]

\* The first parameter of a sequence that is an error, or the empty parameter.
RECURSIVE FirstParameterError(_)
FirstParameterError(parameters) ==
  IF parameters = <<>> THEN EmptyParameter
  ELSE IF Head(parameters).error # "" THEN Head(parameters)
  ELSE FirstParameterError(Tail(parameters))

\* A route configuration with zod schemas: parameters by location, the request
\* body, and the body and one header of its response; NoZod when absent.
NoZod == ZodType("none", <<>>, <<>>, "")
ZodRoute(method, path, params, query, headers, body, responseBody, responseHeader) ==
  [method |-> method, path |-> path,
   request |-> [params |-> params, query |-> query, headers |-> headers, body |-> body],
   response |-> [body |-> responseBody, header |-> responseHeader]]

\* generateSimpleSchema on a schema that may be absent.
MaybeSchema(schemaRefs, zodSchema) ==
  IF zodSchema = NoZod THEN EmptyNode ELSE generateSimpleSchema(schemaRefs, zodSchema)

\* The error that ends generateSingleRoute: of the responses, else of the
\* parameters, else of the request body.
RouteError(responseError, parameterError, requestBody) ==
  IF responseError # "" THEN ParameterError(responseError)
  ELSE IF parameterError.error # "" THEN parameterError
  ELSE ParameterError(requestBody.error)

\* The routeDoc of generateSingleRoute, the parameters listed path, query,
\* header.
RouteDocOf(route, responseBody, responseHeader, query, path, header, requestBody) ==
  [error |-> RouteError(FirstNodeError(<<responseBody, responseHeader>>),
                        FirstParameterError(query \o path \o header),
                        requestBody),
   method |-> route.method, path |-> route.path,
   parameters |-> path \o query \o header,
   requestBody |-> requestBody,
   responseBody |-> responseBody, responseHeader |-> responseHeader]

\* OpenapiGenerator.generateSingleRoute on zod schemas: the responses first,
\* then the query, path and header parameters, then the request body.
RouteDoc(paramRefs, schemaRefs, route) ==
  RouteDocOf(route,
             MaybeSchema(schemaRefs, route.response.body),
             MaybeSchema(schemaRefs, route.response.header),
             InlineParameters(paramRefs, schemaRefs, route.request.query, "query"),
             InlineParameters(paramRefs, schemaRefs, route.request.params, "path"),
             InlineParameters(paramRefs, schemaRefs, route.request.headers, "header"),
             MaybeSchema(schemaRefs, route.request.body))

\* The definitions of a registry of zod schemas.
SchemaDefinition(schema) == [type |-> "schema", schema |-> schema]
ParameterDefinition(schema) == [type |-> "parameter", schema |-> schema]

\* The tables of a generator: schemaRefs, paramRefs, pathRefs and
\* rawComponents, the route documents, and the error that ended the
\* generation with the definition that threw it.
NewGenerator ==
  [schemaRefs |-> <<>>, paramRefs |-> <<>>, pathRefs |-> <<>>, rawComponents |-> <<>>,
   routes |-> <<>>, error |-> EmptyParameter, failed |-> <<>>]

\* The tables after generateSchemaDefinition.
WithSchema(state, result) ==
  [state EXCEPT !.schemaRefs = result.schemaRefs, !.error = ParameterError(result.error)]

\* The tables after generateParameterDefinition.
WithParameter(state, result) ==
  [state EXCEPT !.paramRefs = result.paramRefs, !.error = ParameterError(result.error)]

\* this.pathRefs[path] = routeDoc, the operations of the path dropped.
MergePath_Replace(pathRefs, routeDoc) ==
  Put(pathRefs, routeDoc.path, Put(<<>>, routeDoc.method, routeDoc))

\* this.pathRefs[path] = {...this.pathRefs[path], ...routeDoc}, the routeDoc
\* having the method as its only key.
MergePath(pathRefs, routeDoc) ==
  Put(pathRefs, routeDoc.path,
      Put(IF routeDoc.path \in DOMAIN pathRefs THEN pathRefs[routeDoc.path] ELSE <<>>,
          routeDoc.method, routeDoc))

\* The tables after generateSingleRoute.
WithRoute(state, routeDoc) ==
  IF routeDoc.error.error # "" THEN [state EXCEPT !.error = routeDoc.error]
  ELSE [state EXCEPT !.routes = Append(state.routes, routeDoc),
                     !.pathRefs = MergePath(state.pathRefs, routeDoc)]

\* OpenapiGenerator.generateSingle on the tables.
GenerateSingleDefinition(state, definition) ==
  CASE definition.type = "schema" ->
         WithSchema(state, generateSchemaDefinition(state.schemaRefs, definition.schema))
    [] definition.type = "parameter" ->
         WithParameter(state, generateParameterDefinition(state.paramRefs, state.schemaRefs,
                                                          definition.schema))
    [] definition.type = "route" ->
         WithRoute(state, RouteDoc(state.paramRefs, state.schemaRefs, definition.route))
    [] definition.type = "component" ->
         [state EXCEPT !.rawComponents = Append(state.rawComponents, definition)]
    [] OTHER -> state

\* The tables with the definition that threw, when one did.
Thrown(result, definition) ==
  IF result.error.error # "" THEN [result EXCEPT !.failed = <<definition>>] ELSE result

\* generateSingle, and the definition when it throws.
GenerateSingle(state, definition) ==
  Thrown(GenerateSingleDefinition(state, definition), definition)

\* this.definitions.forEach(generateSingle): the first error ends the loop.
RECURSIVE GenerateEach(_, _)
GenerateEach(state, defs) ==
  IF defs = <<>> \/ state.error.error # "" THEN state
  ELSE GenerateEach(GenerateSingle(state, Head(defs)), Tail(defs))

\* new OpenapiGenerator(defs).generateDocument(config) on zod schemas.
GenerateZodDocument(defs) == GenerateEach(NewGenerator, sortDefinitions(defs))

\* OpenapiRegistry.registerComponent(type, name, component)
ComponentDefinition(componentType, name, component) ==
  [type |-> "component", componentType |-> componentType, name |-> name,
   component |-> component]

\* An entry of the components of the document: a raw component or a
\* generated schema or parameter.
RawEntry(component) == [raw |-> TRUE, component |-> component]
GeneratedEntry(node) == [raw |-> FALSE, node |-> node]

\* The loop of buildComponents: rawComponents[componentType][name] = component.
RECURSIVE RawComponents(_, _)
RawComponents(table, rawComponents) ==
  IF rawComponents = <<>> THEN table
  ELSE RawComponents(
         Put(table, Head(rawComponents).componentType,
             Put(IF Head(rawComponents).componentType \in DOMAIN table
                 THEN table[Head(rawComponents).componentType] ELSE <<>>,
                 Head(rawComponents).name, RawEntry(Head(rawComponents).component))),
         Tail(rawComponents))

\* {...left, ...right} on tables given as functions.
Spread(left, right) ==
  [k \in DOMAIN left \cup DOMAIN right |-> IF k \in DOMAIN right THEN right[k] ELSE left[k]]

\* The return value of buildComponents over the raw table.
ComponentsOver(raw, schemaRefs, paramRefs) ==
  Spread(raw,
         Put(Put(<<>>, "schemas",
                 Spread(IF "schemas" \in DOMAIN raw THEN raw["schemas"] ELSE <<>>,
                        [k \in DOMAIN schemaRefs |-> GeneratedEntry(schemaRefs[k])])),
             "parameters",
             Spread(IF "parameters" \in DOMAIN raw THEN raw["parameters"] ELSE <<>>,
                    [k \in DOMAIN paramRefs |-> GeneratedEntry(paramRefs[k])])))

\* OpenapiGenerator.buildComponents
buildComponents(state) ==
  ComponentsOver(RawComponents(<<>>, state.rawComponents), state.schemaRefs, state.paramRefs)

----------------------------------------------------------------------------
\* A registry of zod schemas and the document generated from it

\* The longest registry.
MaxDefs == 3

\* Registered schemas: an object, an object embedding it (directly, optional,
\* nullable and as the item of an array), its extensions (one adding a key, one
\* extending the extension, one overriding a key), and a discriminated union
\* of a registered and an unregistered variant.
SchemaA == register("A", ZodObject(<<Prop("a", ZodString), Prop("b", ZodNumber)>>))
SchemaB ==
  register("B", ZodObject(<<Prop("id", ZodString), Prop("first", SchemaA),
                            Prop("second", optional(SchemaA)),
                            Prop("third", nullable(SchemaA)),
                            Prop("rest", ZodArray(SchemaA))>>))
SchemaChild == register("Child", extend(SchemaA, <<Prop("c", ZodBoolean)>>))
SchemaGrandChild == register("GrandChild", extend(SchemaChild, <<Prop("d", ZodString)>>))
SchemaOverride ==
  register("Override", extend(SchemaA, <<Prop("b", ZodString),
                                         Prop("e", optional(ZodNumber))>>))
SchemaSword ==
  register("Sword", ZodObject(<<Prop("type", ZodLiteral("sword")),
                                Prop("sharp", ZodBoolean)>>))
SchemaBow == ZodObject(<<Prop("type", ZodLiteral("bow")), Prop("range", ZodNumber)>>)
SchemaWeapon == register("Weapon", ZodDiscriminatedUnion("type", <<SchemaSword, SchemaBow>>))

RegistrySchemas ==
  {SchemaA, SchemaB, SchemaChild, SchemaGrandChild, SchemaOverride, SchemaSword,
   SchemaWeapon}

\* Registered parameters: a header named by its refId, a query parameter with
\* a name of its own, and one without a location.
ParamP == registerParameter("P", openapiParam(ZodString, "", "header"))
ParamPage == registerParameter("Q", openapiParam(ZodNumber, "page", "query"))
ParamNowhere == registerParameter("N", ZodString)

RegistryParameters == {ParamP, ParamPage, ParamNowhere}

\* Routes: one parameter in one section under one key, citing a registered
\* parameter, a registered schema or an unregistered one (with or without a
\* parameter name of its own); and routes citing a registered schema in the
\* request body, the response body and a response header.
OneParameter(section, key, schema) ==
  ZodRoute("get", "/r",
           IF section = "path" THEN <<Prop(key, schema)>> ELSE <<>>,
           IF section = "query" THEN <<Prop(key, schema)>> ELSE <<>>,
           IF section = "header" THEN <<Prop(key, schema)>> ELSE <<>>,
           NoZod, NoZod, NoZod)

RegistryRoutes ==
  {OneParameter(section, "P", ParamP) : section \in {"query", "header"}}
    \cup {OneParameter(section, "page", schema) :
            section \in {"query", "header"}, schema \in {ParamP, ParamPage}}
    \cup {OneParameter("path", "a", SchemaA),
          OneParameter("query", "s", openapiParam(ZodString, "t", "")),
          OneParameter("query", "s", openapiParam(ZodString, "", "header")),
          ZodRoute("post", "/a", <<>>, <<Prop("a", SchemaA), Prop("n", ZodNumber)>>,
                   <<Prop("P", ParamP)>>, SchemaA, SchemaB, SchemaA),
          ZodRoute("post", "/w", <<>>, <<>>, <<>>, SchemaWeapon, SchemaSword, ZodString),
          ZodRoute("post", "/s", <<>>, <<>>, <<>>, ZodSymbol, NoZod, NoZod)}

\* The definitions registered so far.
RegistryDefinitions == IF generated.kind = "none" THEN <<>> ELSE generated.definitions

\* A call of register, registerParameter or registerPath on the registry.
Registered(definition) ==
  /\ generated.kind \in {"none", "registry"}
  /\ Len(RegistryDefinitions) < MaxDefs
  /\ generated' = [kind |-> "registry",
                   definitions |-> Append(RegistryDefinitions, definition)]
  /\ UNCHANGED <<definitions, routesByUppercasedMethodMap, defaultValidationErrorHandler,
                 memoized, created, handles, last, lastCall, fetched, endpointIndexes>>

\* registry.register(refId, schema)
RegisterSchema(schema) == Registered(SchemaDefinition(schema))

\* registry.registerParameter(refId, schema)
RegisterParameter(schema) == Registered(ParameterDefinition(schema))

\* registry.registerPath(route)
RegisterPath(route) == Registered(RouteDefinition(route))

\* new OpenapiGenerator(registry.definitions).generateDocument(config): the
\* document, or the error thrown, with the tables as they were then.
GenerateDocument ==
  /\ generated.kind = "registry"
  /\ \E result \in {GenerateZodDocument(generated.definitions)} :
        generated' = [kind |-> IF result.error.error = "" THEN "done" ELSE "threw",
                      definitions |-> generated.definitions,
                      sorted |-> sortDefinitions(generated.definitions),
                      schemaRefs |-> result.schemaRefs,
                      paramRefs |-> result.paramRefs,
                      routes |-> result.routes,
                      error |-> result.error,
                      failed |-> result.failed]
  /\ UNCHANGED <<definitions, routesByUppercasedMethodMap, defaultValidationErrorHandler,
                 memoized, created, handles, last, lastCall, fetched, endpointIndexes>>

InitGenerator == Construct("undefined")

NextGenerator ==
  \/ \E schema \in RegistrySchemas : RegisterSchema(schema)
  \/ \E schema \in RegistryParameters : RegisterParameter(schema)
  \/ \E route \in RegistryRoutes : RegisterPath(route)
  \/ GenerateDocument

SpecGenerator == InitGenerator /\ [][NextGenerator]_vars

----------------------------------------------------------------------------
\* Properties of the generated document

Generated == generated.kind \in {"done", "threw"}

\* The refIds of the schema definitions generated before the j-th definition.
GeneratedBefore(j) ==
  {generated.sorted[i].schema.refId :
     i \in {k \in 1..(j - 1) : generated.sorted[k].type = "schema"}}
    \cap DOMAIN generated.schemaRefs

\* How often a refId is registered as a schema.
TimesRegistered(refId) ==
  Cardinality({i \in 1..Len(generated.sorted) :
                 /\ generated.sorted[i].type = "schema"
                 /\ generated.sorted[i].schema.refId = refId})

\* The node is a reference to the schema, alone or with {nullable: true}.
Cites(node, refId) ==
  \/ node = RefNode(refId)
  \/ node = [EmptyNode EXCEPT !.allOf = <<RefNode(refId), [EmptyNode EXCEPT !.nullable = TRUE]>>]

\* The object node of an object schema: the second member of allOf when the
\* schema extends another.
ObjectData(zodSchema, node) ==
  IF zodSchema.extendedFrom # "" /\ Len(node.allOf) = 2 THEN node.allOf[2] ELSE node

\* Every registered schema of the set that the zod schema embeds, at any
\* depth, is a reference at its position in the node.
RECURSIVE CitesEmbedded(_, _, _)
CitesEmbedded(before, zodSchema, node) ==
  IF zodSchema.refId \in before THEN Cites(node, zodSchema.refId)
  ELSE CASE zodSchema.kind = "object" ->
              LET data == ObjectData(zodSchema, node)
              IN \A p \in 1..Len(zodSchema.shape) :
                   PropertiesHas(data.properties, zodSchema.shape[p].key)
                     => CitesEmbedded(before, zodSchema.shape[p].schema,
                                      PropertiesGet(data.properties, zodSchema.shape[p].key))
         [] zodSchema.kind = "array" ->
              /\ Len(node.items) = 1
              /\ CitesEmbedded(before, zodSchema.options[1], node.items[1])
         [] zodSchema.kind = "discriminatedUnion" ->
              /\ Len(node.oneOf) = Len(zodSchema.options)
              /\ \A i \in 1..Len(zodSchema.options) :
                   CitesEmbedded(before, zodSchema.options[i], node.oneOf[i])
         [] OTHER -> TRUE

\* The route definitions in the order of their generation.
SortedRoutes == SelectSeq(generated.sorted, LAMBDA d : d.type = "route")

\* The entries of the parameter sections in the order of the parameter list.
ParameterEntries(route) ==
  route.request.params \o route.request.query \o route.request.headers

RECURSIVE EmittedProperties(_)
EmittedProperties(node) ==
  IF Len(node.allOf) = 2 /\ node.allOf[1].ref \in DOMAIN generated.schemaRefs
                         /\ node.allOf[1].ref # "" /\ node.allOf[2].type = "object"
                         /\ generated.schemaRefs[node.allOf[1].ref] # node
  THEN LET inherited == EmittedProperties(generated.schemaRefs[node.allOf[1].ref])
           own == node.allOf[2].properties
       IN [i \in 1..Len(inherited) |->
             IF PropertiesHas(own, inherited[i].key)
             THEN NodeProp(inherited[i].key, PropertiesGet(own, inherited[i].key))
             ELSE inherited[i]]
          \o SelectSeq(own, LAMBDA e : ~PropertiesHas(inherited, e.key))
  ELSE node.properties

\* The keys a generated schema requires, those of the schema it extends included.
RECURSIVE EmittedRequired(_)
EmittedRequired(node) ==
  IF Len(node.allOf) = 2 /\ node.allOf[1].ref \in DOMAIN generated.schemaRefs
                         /\ node.allOf[1].ref # "" /\ node.allOf[2].type = "object"
                         /\ generated.schemaRefs[node.allOf[1].ref] # node
  THEN {node.allOf[2].required[i] : i \in 1..Len(node.allOf[2].required)}
         \cup EmittedRequired(generated.schemaRefs[node.allOf[1].ref])
  ELSE {node.required[i] : i \in 1..Len(node.required)}

\* The schema-ref table as it was when the j-th definition was generated.
TableBefore(j) == [refId \in GeneratedBefore(j) |-> generated.schemaRefs[refId]]

\* The node of the j-th definition, an extension, is allOf [reference to the
\* parent, object node] where the object node has the properties of the child
\* that differ from what the parent emits under the same key, and requires
\* the required keys of the child that the parent does not require.
ExtensionIsDifference(j) ==
  LET zodSchema == generated.sorted[j].schema
      node == generated.schemaRefs[zodSchema.refId]
      parent == generated.schemaRefs[zodSchema.extendedFrom]
      childProperties ==
        [p \in 1..Len(zodSchema.shape) |->
           NodeProp(zodSchema.shape[p].key,
                    generateSimpleSchema(TableBefore(j), zodSchema.shape[p].schema))]
      childRequired ==
        SelectSeq([p \in 1..Len(zodSchema.shape) |-> zodSchema.shape[p]],
                  LAMBDA e : ~e.schema.optional)
  IN /\ Len(node.allOf) = 2
     /\ node.allOf[1] = RefNode(zodSchema.extendedFrom)
     /\ node.allOf[2].type = "object"
     /\ node.allOf[2].properties =
          SelectSeq(childProperties,
                    LAMBDA e : ~(/\ PropertiesHas(EmittedProperties(parent), e.key)
                                 /\ PropertiesGet(EmittedProperties(parent), e.key) = e.node))
     /\ node.allOf[2].required =
          SelectSeq([i \in 1..Len(childRequired) |-> childRequired[i].key],
                    LAMBDA key : key \notin EmittedRequired(parent))

\* The definitions that are generated extensions of a generated parent, in a
\* registry that registers no refId twice.
Extensions ==
  {j \in 1..Len(generated.sorted) :
     /\ generated.sorted[j].type = "schema"
     /\ generated.sorted[j].schema.extendedFrom \in GeneratedBefore(j)
     /\ generated.sorted[j].schema.refId \in DOMAIN generated.schemaRefs
     /\ \A refId \in DOMAIN generated.schemaRefs : TimesRegistered(refId) = 1}

\* C18: the node of an object schema that extends a registered parent is
\* allOf [reference to the parent, object node]; the object node has exactly
\* the properties of the child that are not equal to the parent's property of
\* the same key, and requires exactly the required keys of the child that the
\* parent does not require already.
C18_ExtensionEmitsOnlyDifferences ==
  Generated => \A j \in Extensions : ExtensionIsDifference(j)

\* The same for the extensions of a parent that extends nothing.
ExtensionOfPlainObjectEmitsOnlyDifferences ==
  Generated =>
    \A j \in Extensions :
      generated.schemaRefs[generated.sorted[j].schema.extendedFrom].type = "object"
        => ExtensionIsDifference(j)

\* An extension overriding a key of a plain parent emits the key again.
OverriddenKeyEmitted ==
  /\ generated.kind = "done"
  /\ \E j \in Extensions :
       /\ generated.sorted[j].schema = SchemaOverride
       /\ [i \in 1..2 |-> generated.schemaRefs["Override"].allOf[2].properties[i].key]
            = <<"b", "e">>
       /\ generated.schemaRefs["Override"].allOf[2].required = <<>>

\* The node converts the variant: a reference when the variant is a
\* generated schema, else an object node with the keys of the variant, its
\* tag among them with the value of the variant.
VariantConverted(before, discriminator, variant, node) ==
  IF variant.refId \in before THEN node = RefNode(variant.refId)
  ELSE /\ node.type = "object"
       /\ node.ref = "" /\ node.oneOf = <<>> /\ node.allOf = <<>>
       /\ [p \in 1..Len(node.properties) |-> node.properties[p].key]
            = [p \in 1..Len(variant.shape) |-> variant.shape[p].key]
       /\ PropertiesGet(node.properties, discriminator).enum
            = <<ShapeGet(variant.shape, discriminator).value>>

\* The node converts the discriminated union: one node a variant in the order
\* of the declaration, the discriminator, and nothing of the variants beside.
UnionConverted(before, zodSchema, node) ==
  /\ Len(node.oneOf) = Len(zodSchema.options)
  /\ \A i \in 1..Len(zodSchema.options) :
       VariantConverted(before, zodSchema.discriminator, zodSchema.options[i], node.oneOf[i])
  /\ node.discriminator = zodSchema.discriminator
  /\ node.type = "" /\ node.ref = "" /\ node.allOf = <<>>
  /\ node.properties = <<>> /\ node.required = <<>>

UnionInlineInRoute ==
  /\ generated.kind = "done"
  /\ DOMAIN generated.schemaRefs = {}
  /\ \E k \in 1..Len(generated.routes) :
       /\ Len(generated.routes[k].requestBody.oneOf) = 2
       /\ generated.routes[k].requestBody.oneOf[1].type = "object"

\* An entry of a parameter section with the location of the section.
Located(entries, location) ==
  [i \in 1..Len(entries) |->
     [key |-> entries[i].key, schema |-> entries[i].schema, location |-> location]]

\* The entries of a route in the order in which their parameters are generated.
GenerationEntries(route) ==
  Located(route.request.query, "query") \o Located(route.request.params, "path")
    \o Located(route.request.headers, "header")

\* The entries of a route in the order of its parameter list.
ListedEntries(route) ==
  Located(route.request.params, "path") \o Located(route.request.query, "query")
    \o Located(route.request.headers, "header")

\* The entry cites a schema registered and generated as a named parameter.
CitesParameter(entry) ==
  /\ entry.schema.refId \in DOMAIN generated.paramRefs
  /\ generated.paramRefs[entry.schema.refId].in = entry.schema.paramIn
  /\ generated.paramRefs[entry.schema.refId].name = entry.schema.paramName

LocationDiffers(entry) == generated.paramRefs[entry.schema.refId].in # entry.location
NameDiffers(entry) == generated.paramRefs[entry.schema.refId].name # entry.key

\* The positions of the citations of a registered parameter whose section or
\* key differs from the registration.
Conflicts(entries) ==
  {i \in 1..Len(entries) :
     CitesParameter(entries[i]) /\ (LocationDiffers(entries[i]) \/ NameDiffers(entries[i]))}

\* The generation reaches the i-th entry of the route: no schema and no
\* parameter definition threw, the responses of the route are absent or
\* references, the entries before are citations of registered parameters.
NothingThrowsBefore(route, i) ==
  /\ generated.failed = <<>> \/ generated.failed[1].type = "route"
  /\ \A schema \in {route.response.body, route.response.header} :
       schema = NoZod \/ schema.refId \in DOMAIN generated.schemaRefs
  /\ \A h \in 1..(i - 1) : CitesParameter(GenerationEntries(route)[h])

SetOf(values) == {values[i] : i \in 1..Len(values)}

\* C20: a route that cites a registered named parameter in a section other
\* than the registered location ends the generation with a ConflictError of
\* key "in" carrying the two locations; under a key other than the registered
\* name, the section being the registered location, with a ConflictError of
\* key "name" carrying the two names; a generated route has neither, and its
\* parameter list has the reference to the registered parameter.
C20_RegisteredParameterConflicts ==
  Generated =>
    /\ \A k \in 1..Len(generated.routes) :
         LET entries == ListedEntries(SortedRoutes[k].route)
         IN /\ Conflicts(entries) = {}
            /\ \A i \in 1..Len(entries) :
                 CitesParameter(entries[i])
                   => generated.routes[k].parameters[i] = ParameterRef(entries[i].schema.refId)
    /\ \A k \in 1..Len(SortedRoutes) :
         LET route == SortedRoutes[k].route
             entries == GenerationEntries(route)
         IN \A i \in Conflicts(entries) :
              (/\ \A h \in Conflicts(entries) : i <= h
               /\ NothingThrowsBefore(route, i)
               /\ k = Len(generated.routes) + 1)
                => LET registered == generated.paramRefs[entries[i].schema.refId]
                   IN /\ generated.kind = "threw"
                      /\ generated.failed = <<SortedRoutes[k]>>
                      /\ generated.error.error = "ConflictError"
                      /\ IF LocationDiffers(entries[i])
                         THEN /\ generated.error.key = "in"
                              /\ {registered.in, entries[i].location}
                                   \subseteq SetOf(generated.error.values)
                         ELSE /\ generated.error.key = "name"
                              /\ {registered.name, entries[i].key}
                                   \subseteq SetOf(generated.error.values)

\* The header parameter P cited in the query section, under its name or under
\* another key: the conflict of location is raised.
C20_Witness ==
  /\ generated.kind = "threw"
  /\ "P" \in DOMAIN generated.paramRefs
  /\ generated.failed # <<>>
  /\ generated.failed[1].type = "route"
  /\ \E key \in {"P", "page"} :
       generated.failed[1].route.request.query = <<Prop(key, ParamP)>>
  /\ generated.error = ConflictError("in", <<"header", "query", "header">>)

\* The header parameter P cited in the header section under another key.
NameConflictRaised ==
  /\ generated.kind = "threw"
  /\ "P" \in DOMAIN generated.paramRefs
  /\ generated.failed # <<>>
  /\ generated.failed[1].type = "route"
  /\ generated.failed[1].route.request.headers = <<Prop("page", ParamP)>>
  /\ generated.error = ConflictError("name", <<"P", "page", "P">>)

\* A registered parameter cited in its section under its name.
ParameterReferenced ==
  /\ generated.kind = "done"
  /\ \E k \in 1..Len(generated.routes) :
       \/ /\ SortedRoutes[k].route.request.headers = <<Prop("P", ParamP)>>
          /\ generated.routes[k].parameters = <<ParameterRef("P")>>
       \/ /\ SortedRoutes[k].route.request.query = <<Prop("page", ParamPage)>>
          /\ generated.routes[k].parameters = <<ParameterRef("Q")>>

----------------------------------------------------------------------------
\* A registry with parent registries: OpenapiRegistry

\* The most calls made on the registries.
MaxCalls == 3

\* A second schema registered under the name of SchemaA, of other content.
SchemaA2 == register("A", ZodObject(<<Prop("a", ZodNumber)>>))

\* A route without parameters and bodies.
PlainRoute(method, path) == ZodRoute(method, path, <<>>, <<>>, <<>>, NoZod, NoZod, NoZod)

CallSchemas == {SchemaA, SchemaA2}
CallParameters == {ParamP}
CallRoutes == {PlainRoute("get", "/r"), PlainRoute("post", "/r"), PlainRoute("get", "/s")}
CallComponents ==
  {ComponentDefinition("schemas", "A", "raw A"),
   ComponentDefinition("schemas", "X", "raw X"),
   ComponentDefinition("schemas", "X", "another raw X")}

\* No call was made yet: every registry is empty.
NewRegistry ==
  [kind |-> "registry", registry |-> [name \in Registries |-> <<>>], calls |-> <<>>]

\* The registries and the calls made so far, in call order.
RegistryNow == IF generated.kind = "none" THEN NewRegistry ELSE generated

\* _definitions.push(definition) on one of the registries, with the call
\* noted in the history of calls.
push(name, definition) ==
  [kind |-> "registry",
   registry |-> [RegistryNow.registry EXCEPT ![name] = Append(@, definition)],
   calls |-> Append(RegistryNow.calls, [registry |-> name, definition |-> definition])]

\* register(refId, schema) on one of the registries.
CallRegister(name, schema) ==
  /\ Len(RegistryNow.calls) < MaxCalls
  /\ generated' = push(name, SchemaDefinition(schema))
  /\ UNCHANGED <<definitions, routesByUppercasedMethodMap, defaultValidationErrorHandler,
                 memoized, created, handles, last, lastCall, fetched, endpointIndexes>>

\* registerParameter(refId, schema) on one of the registries.
CallRegisterParameter(name, schema) ==
  /\ Len(RegistryNow.calls) < MaxCalls
  /\ generated' = push(name, ParameterDefinition(schema))
  /\ UNCHANGED <<definitions, routesByUppercasedMethodMap, defaultValidationErrorHandler,
                 memoized, created, handles, last, lastCall, fetched, endpointIndexes>>

\* registerPath(route) on one of the registries.
CallRegisterPath(name, route) ==
  /\ Len(RegistryNow.calls) < MaxCalls
  /\ generated' = push(name, RouteDefinition(route))
  /\ UNCHANGED <<definitions, routesByUppercasedMethodMap, defaultValidationErrorHandler,
                 memoized, created, handles, last, lastCall, fetched, endpointIndexes>>

\* registerComponent(componentType, name, component) on one of the registries.
CallRegisterComponent(name, component) ==
  /\ Len(RegistryNow.calls) < MaxCalls
  /\ generated' = push(name, component)
  /\ UNCHANGED <<definitions, routesByUppercasedMethodMap, defaultValidationErrorHandler,
                 memoized, created, handles, last, lastCall, fetched, endpointIndexes>>

\* The document of a generator and what it went through.
Document(registry, array, result) ==
  [kind |-> IF result.error.error = "" THEN "done" ELSE "threw",
   registry |-> sortInPlace(registry.registry, array),
   calls |-> registry.calls,
   list |-> array.items,
   sorted |-> sortDefinitions(array.items),
   schemaRefs |-> result.schemaRefs,
   paramRefs |-> result.paramRefs,
   pathRefs |-> result.pathRefs,
   components |-> buildComponents(result),
   routes |-> result.routes,
   error |-> result.error,
   failed |-> result.failed]

\* new OpenapiGenerator(registry.definitions).generateDocument(config) on the
\* registry built on the parents.
GenerateFromRegistry ==
  /\ generated.kind = "registry"
  /\ \E array \in {getDefinitions(generated.registry, "own")} :
       generated' = Document(generated, array, GenerateZodDocument(array.items))
  /\ UNCHANGED <<definitions, routesByUppercasedMethodMap, defaultValidationErrorHandler,
                 memoized, created, handles, last, lastCall, fetched, endpointIndexes>>

InitRegistry == Construct("undefined")

NextRegistry ==
  \/ \E name \in Registries, schema \in CallSchemas : CallRegister(name, schema)
  \/ \E name \in Registries, schema \in CallParameters : CallRegisterParameter(name, schema)
  \/ \E name \in Registries, route \in CallRoutes : CallRegisterPath(name, route)
  \/ \E name \in Registries, component \in CallComponents :
       CallRegisterComponent(name, component)
  \/ GenerateFromRegistry

SpecRegistry == InitRegistry /\ [][NextRegistry]_vars

----------------------------------------------------------------------------
\* Properties of the registries

\* The definitions the calls on one registry pushed, in call order.
RECURSIVE CallsOn(_, _)
CallsOn(calls, name) ==
  IF calls = <<>> THEN <<>>
  ELSE (IF Head(calls).registry = name THEN <<Head(calls).definition>> ELSE <<>>)
         \o CallsOn(Tail(calls), name)

\* A generator was built on the registries and generated, or threw.
GeneratedFromRegistry == generated.kind \in {"done", "threw"} /\ "calls" \in DOMAIN generated

\* C21: after any sequence of register, registerParameter, registerPath and
\* registerComponent calls, the definitions of a registry are those of its
\* parents, in the order of the parents, followed by its own in call order;
\* each call appended one definition, and neither constructing a generator on
\* the list the accessor returned nor generating a document removed or
\* reordered a definition of a registry.
C21_DefinitionsInCallOrder ==
  /\ \A name \in Registries :
       /\ RegistryNow.registry[name] = CallsOn(RegistryNow.calls, name)
       /\ getDefinitions(RegistryNow.registry, name).items =
            (IF name = "own"
             THEN CallsOn(RegistryNow.calls, "first") \o CallsOn(RegistryNow.calls, "second")
             ELSE <<>>) \o CallsOn(RegistryNow.calls, name)
  /\ GeneratedFromRegistry =>
       generated.list =
         CallsOn(generated.calls, "first") \o CallsOn(generated.calls, "second")
           \o CallsOn(generated.calls, "own")

\* A document was generated from definitions of both parents and of the
\* registry itself, pushed in another order than that of the list, which the
\* generator had to reorder.
C21_Witness ==
  /\ GeneratedFromRegistry
  /\ generated.kind = "done"
  /\ \A name \in Registries : Len(generated.registry[name]) = 1
  /\ generated.calls[1].registry = "own"
  /\ generated.calls[3].registry = "first"
  /\ generated.sorted # generated.list

----------------------------------------------------------------------------
\* What handle leaves alone

\* A step of a handle call: its start, request.json() settling, or the
\* handler's promise settling.
HandleStep ==
  \/ \E s \in Slots, request \in ConcurrentRequests : HandleBegin(s, request)
  \/ \E s \in Slots : HandleJson(s)
  \/ \E s \in Slots : HandleReturn(s)

\* C22: a step of a handle call, in any interleaving with other handle calls
\* and with registrations, the call of the document route included, leaves
\* the dispatch table and the definitions of the registry as they were (the
\* endpoint index is the definition endpoints, which no step writes).
C22_HandleLeavesTablesUnchanged ==
  [][HandleStep => UNCHANGED <<routesByUppercasedMethodMap, definitions>>]_vars

\* Two handle calls are suspended, one of them on the document generated
\* from a registry of several routes.
C22_Witness ==
  /\ memoized.set
  /\ Len(definitions) >= 2
  /\ \A s \in Slots : handles[s].pc # "idle"
  /\ \E s \in Slots : handles[s].route.handler = "docs"

----------------------------------------------------------------------------
\* Properties of the document generated from the registries

\* The place of a kind of definition in the order the generator is said to
\* process them in.
StatedOrder(type) ==
  CASE type = "schema" -> 0
    [] type = "parameter" -> 1
    [] type = "route" -> 2
    [] type = "component" -> 3

\* The definitions of one kind, in the order of the sequence.
OfKind(defs, type) == SelectSeq(defs, LAMBDA d : d.type = type)

\* Insertion order is kept within each kind.
InsertionOrderWithinKind ==
  GeneratedFromRegistry =>
    \A type \in {"schema", "parameter", "route", "component"} :
      OfKind(generated.sorted, type) = OfKind(generated.list, type)

\* C23: whatever the insertion order, the generator processes all schema
\* definitions, then all parameter definitions, then all route definitions,
\* then all raw components, keeping insertion order within each kind.
C23_SchemasParametersRoutesComponents ==
  GeneratedFromRegistry =>
    /\ \A i, j \in 1..Len(generated.sorted) :
         i < j => StatedOrder(generated.sorted[i].type) <= StatedOrder(generated.sorted[j].type)
    /\ \A type \in {"schema", "parameter", "route", "component"} :
         OfKind(generated.sorted, type) = OfKind(generated.list, type)

\* What the generator does: raw components, whose kind findIndex does not
\* find, come before the schemas, the parameters and the routes.
ComponentsProcessedFirst ==
  GeneratedFromRegistry =>
    \A i, j \in 1..Len(generated.sorted) :
      i < j =>
        GenerationOrderIndex(generated.sorted[i].type)
          <= GenerationOrderIndex(generated.sorted[j].type)

\* A raw component was registered after a schema and processed before it.
ComponentProcessedBeforeSchema ==
  /\ GeneratedFromRegistry
  /\ Len(generated.list) = 2
  /\ generated.list[1].type = "schema"
  /\ generated.list[2].type = "component"
  /\ generated.sorted[1].type = "component"

\* The kind and the name under which a definition enters the components.
ComponentKey(definition) ==
  CASE definition.type = "schema" -> <<"schemas", definition.schema.refId>>
    [] definition.type = "parameter" -> <<"parameters", definition.schema.refId>>
    [] definition.type = "component" -> <<definition.componentType, definition.name>>
    [] OTHER -> <<"paths", "">>

\* The places in the list of the definitions registered under a kind and name.
RegisteredAs(key) ==
  {i \in 1..Len(generated.list) : ComponentKey(generated.list[i]) = key}

\* The greatest of a set of places.
Latest(places) == CHOOSE i \in places : \A j \in places : j <= i

\* The entry of the components is the one of the definition.
EntryOf(entry, definition) ==
  IF definition.type = "component"
  THEN entry = RawEntry(definition.component)
  ELSE ~entry.raw

\* The kinds and names of the components of the generated document.
ComponentKeys ==
  UNION {{<<kind, name>> : name \in DOMAIN generated.components[kind]} :
           kind \in DOMAIN generated.components}

\* C24: in the components of the generated document the entry kept for a
\* kind and name is the one registered last: a raw component registered after
\* a generated schema or parameter of that name replaces it, a generated one
\* registered after a raw one replaces the raw one, and of two raw components
\* of the same kind and name the later is kept.
C24_LastRegistrationKept ==
  (GeneratedFromRegistry /\ generated.kind = "done") =>
    \A key \in ComponentKeys :
      EntryOf(generated.components[key[1]][key[2]],
              generated.list[Latest(RegisteredAs(key))])

\* What buildComponents does: a generated schema or parameter is kept over
\* every raw component of its kind and name, wherever they were registered,
\* and of raw components alone the later is kept.
GeneratedKeptOverRaw ==
  (GeneratedFromRegistry /\ generated.kind = "done") =>
    \A key \in ComponentKeys :
      LET generatedAs == {i \in RegisteredAs(key) : generated.list[i].type # "component"}
      IN  IF generatedAs # {}
          THEN ~generated.components[key[1]][key[2]].raw
          ELSE EntryOf(generated.components[key[1]][key[2]],
                       generated.list[Latest(RegisteredAs(key))])

\* A raw component was registered after the schema of its name, and the
\* document keeps the schema.
RawAfterGeneratedDropped ==
  /\ GeneratedFromRegistry
  /\ generated.kind = "done"
  /\ generated.list = <<SchemaDefinition(SchemaA), ComponentDefinition("schemas", "A", "raw A")>>
  /\ ~generated.components["schemas"]["A"].raw

\* Of two raw components of one kind and name the later is kept.
LaterRawKept ==
  /\ GeneratedFromRegistry
  /\ generated.kind = "done"
  /\ generated.list = <<ComponentDefinition("schemas", "X", "raw X"),
                        ComponentDefinition("schemas", "X", "another raw X")>>
  /\ generated.components["schemas"]["X"] = RawEntry("another raw X")

\* The schemas registered under a refId, in the order of the list.
SchemasNamed(refId) ==
  SelectSeq(generated.list, LAMBDA d : d.type = "schema" /\ d.schema.refId = refId)

\* The entry of the schema-ref table a schema gives when it is the only
\* definition of a registry.
ConversionAlone(definition) ==
  GenerateZodDocument(<<definition>>).schemaRefs[definition.schema.refId]

\* C25: when a schema name is registered twice with structurally different
\* content, the entry of the schema-ref table for that name in the final
\* document is the conversion of the structure of the schema registered
\* later.
C25_LaterSchemaOverwrites ==
  (GeneratedFromRegistry /\ generated.kind = "done") =>
    \A refId \in DOMAIN generated.schemaRefs :
      LET named == SchemasNamed(refId)
      IN  (Len(named) = 2 /\ named[1] # named[2]) =>
            generated.schemaRefs[refId] = ConversionAlone(named[2])

\* What generateSchemaDefinition does with the later registration: it finds
\* the entry of the earlier one and stores a reference of the entry to itself.
LaterSchemaStoresReferenceToItself ==
  (GeneratedFromRegistry /\ generated.kind = "done") =>
    \A refId \in DOMAIN generated.schemaRefs :
      Len(SchemasNamed(refId)) >= 2 => generated.schemaRefs[refId] = RefNode(refId)

\* Two schemas of different content were registered under one name.
RegisteredTwiceDifferently ==
  /\ GeneratedFromRegistry
  /\ generated.kind = "done"
  /\ generated.list = <<SchemaDefinition(SchemaA), SchemaDefinition(SchemaA2)>>
  /\ generated.schemaRefs["A"] = RefNode("A")
  /\ ConversionAlone(SchemaDefinition(SchemaA2)).type = "object"

\* The methods of the routes registered for a path template.
MethodsRegistered(path) ==
  {generated.list[i].route.method :
     i \in {k \in 1..Len(generated.list) :
              generated.list[k].type = "route" /\ generated.list[k].route.path = path}}

\* The list without the routes of the other path templates.
WithoutOtherPaths(path) ==
  SelectSeq(generated.list, LAMBDA d : d.type = "route" => d.route.path = path)

\* C27: the entry of the path table for a template holds one operation for
\* each method registered for it, so that routes of one path and different
\* methods are all kept, and the routes of the other templates make no
\* difference to it.
C27_OperationsPerMethod ==
  (GeneratedFromRegistry /\ generated.kind = "done") =>
    /\ DOMAIN generated.pathRefs =
         {generated.list[i].route.path :
            i \in {k \in 1..Len(generated.list) : generated.list[k].type = "route"}}
    /\ \A path \in DOMAIN generated.pathRefs :
         /\ DOMAIN generated.pathRefs[path] = MethodsRegistered(path)
         /\ \A method \in DOMAIN generated.pathRefs[path] :
              /\ generated.pathRefs[path][method].method = method
              /\ generated.pathRefs[path][method].path = path
         /\ generated.pathRefs[path] =
              GenerateZodDocument(WithoutOtherPaths(path)).pathRefs[path]

\* Two methods were registered for one template, between them a route of
\* another template.
C27_Witness ==
  /\ GeneratedFromRegistry
  /\ generated.kind = "done"
  /\ generated.list = <<RouteDefinition(PlainRoute("get", "/r")),
                        RouteDefinition(PlainRoute("get", "/s")),
                        RouteDefinition(PlainRoute("post", "/r"))>>
  /\ DOMAIN generated.pathRefs["/r"] = {"get", "post"}
  /\ DOMAIN generated.pathRefs["/s"] = {"get"}

----------------------------------------------------------------------------
\* Building and merging endpoint indexes: OpenapiEndpoints

\* The most calls of endpoint() on the indexes.
MaxEndpoints == 3

\* The OpenapiEndpoints objects: two built by endpoint() calls, and the one
\* OpenapiEndpoints.merge(left, right) returns.
IndexNames == {"left", "right", "merged"}

\* The configuration of UsersListConfig's path and method with another
\* response.
UsersListCreatedConfig ==
  RouteConfig("get", <<Lit("users"), Lit("list")>>, <<>>, <<>>, <<>>, NoSchema,
              {<<201, "application/json">>})

IndexConfigs == {UsersListConfig, UsersListCreatedConfig, UserByIdConfig, ReplaceUserConfig}

\* Two new OpenapiEndpoints(): each holds an empty Map of paths. heap holds
\* the Maps of methods, maps[name] the Map of paths of an object as the
\* places of its Maps of methods in heap.
NewIndexes ==
  [kind |-> "endpoints", heap |-> <<>>, maps |-> [name \in IndexNames |-> <<>>],
   made |-> FALSE, calls |-> 0]

IndexesNow == IF endpointIndexes.kind = "none" THEN NewIndexes ELSE endpointIndexes

\* if (!this.endpointByPathByMethodMap.has(config.path))
\*   this.endpointByPathByMethodMap.set(config.path, new Map())
withPath(state, name, path) ==
  IF path \in DOMAIN state.maps[name] THEN state
  ELSE [state EXCEPT !.heap = Append(@, <<>>),
                     !.maps[name] = Put(@, path, Len(state.heap) + 1)]

\* this.endpointByPathByMethodMap.get(config.path)!.set(config.method, endpoint)
setEndpoint(state, name, config) ==
  [state EXCEPT !.heap[state.maps[name][config.path]] = Put(@, config.method, Endpoint(config)),
                !.calls = @ + 1]

\* OpenapiEndpoints.endpoint(config) on one of the objects.
endpoint(state, name, config) == setEndpoint(withPath(state, name, config.path), name, config)

\* The Map of paths of an object with its Maps of methods read from heap.
View(state, name) ==
  [path \in DOMAIN state.maps[name] |-> state.heap[state.maps[name][path]]]

\* New places in heap for a set of paths.
FreshPlaces(state, paths) ==
  CHOOSE f \in [paths -> (Len(state.heap) + 1)..(Len(state.heap) + Cardinality(paths))] :
    \A p, q \in paths : f[p] = f[q] => p = q

\* The Maps of methods of mergedMap, a path of left keeping left's Map.
mergedPlaces_Shared(state, paths) ==
  LET fresh == FreshPlaces(state, paths \ DOMAIN state.maps["left"])
  IN  [path \in paths |->
         IF path \in DOMAIN state.maps["left"] THEN state.maps["left"][path] ELSE fresh[path]]

\* The Maps of methods of mergedMap: mergedMap.set(path, new Map()) for every
\* path of left and of right.
mergedPlaces(state, paths) == FreshPlaces(state, paths)

\* The Map of methods of an object for a path, empty when it has none.
MethodsAt(state, name, path) ==
  IF path \in DOMAIN state.maps[name] THEN state.heap[state.maps[name][path]] ELSE <<>>

\* The heap after the two loops of merge wrote the endpoints of left, then
\* those of right, into the Maps of methods at the given places.
heapAfterMerge(state, places) ==
  [a \in 1..Len(state.heap) \cup {places[p] : p \in DOMAIN places} |->
     IF \E p \in DOMAIN places : places[p] = a
     THEN LET path == CHOOSE p \in DOMAIN places : places[p] = a
          IN  Spread(IF a <= Len(state.heap) THEN state.heap[a] ELSE <<>>,
                     Spread(MethodsAt(state, "left", path), MethodsAt(state, "right", path)))
     ELSE state.heap[a]]

\* OpenapiEndpoints.merge(left, right), the object it returns kept as merged.
merge(state, places) ==
  [state EXCEPT !.heap = heapAfterMerge(state, places),
                !.maps["merged"] = places,
                !.made = TRUE]

\* endpoint(config) on left, on right, or on the merged index once merge
\* returned it.
EndpointCall(name, config) ==
  /\ IndexesNow.calls < MaxEndpoints
  /\ name = "merged" => IndexesNow.made
  /\ endpointIndexes' = endpoint(IndexesNow, name, config)
  /\ UNCHANGED <<definitions, routesByUppercasedMethodMap, defaultValidationErrorHandler,
                 memoized, created, handles, last, lastCall, fetched, generated>>

\* merged = OpenapiEndpoints.merge(left, right)
MergeCall ==
  /\ ~IndexesNow.made
  /\ endpointIndexes' =
       merge(IndexesNow,
             mergedPlaces(IndexesNow,
                          DOMAIN IndexesNow.maps["left"] \cup DOMAIN IndexesNow.maps["right"]))
  /\ UNCHANGED <<definitions, routesByUppercasedMethodMap, defaultValidationErrorHandler,
                 memoized, created, handles, last, lastCall, fetched, generated>>

InitEndpoints == Construct("undefined")

NextEndpoints ==
  \/ \E name \in IndexNames, config \in IndexConfigs : EndpointCall(name, config)
  \/ MergeCall

SpecEndpoints == InitEndpoints /\ [][NextEndpoints]_vars

----------------------------------------------------------------------------
\* Properties of the endpoint indexes

\* The endpoints the objects hold.
EndpointsHeld ==
  UNION {{IndexesNow.heap[a][method] : method \in DOMAIN IndexesNow.heap[a]} :
           a \in 1..Len(IndexesNow.heap)}

\* The keys and schemas of a list of the flattened view.
Pairs(list) == [i \in 1..Len(list) |-> <<list[i].key, list[i].schema>>]

\* C26: the endpoint built by OpenapiEndpoints.endpoint is the flattened view
\* of its route configuration: its params list holds the pairs of
\* request.params, its query list those of request.query, its headers list
\* those of request.headers, each in declaration order, and its body is the
\* declared application/json body schema.
C26_EndpointIsFlattenedView ==
  \A e \in EndpointsHeld :
    /\ Pairs(e.request.params) = Pairs(e.config.request.params)
    /\ Pairs(e.request.query) = Pairs(e.config.request.query)
    /\ Pairs(e.request.headers) = Pairs(e.config.request.headers)
    /\ e.request.body = e.config.request.body

\* What endpoint() does: params, query and body are those of the
\* configuration, and the headers list is the params list once more.
HeadersListHoldsParams ==
  \A e \in EndpointsHeld :
    /\ Pairs(e.request.params) = Pairs(e.config.request.params)
    /\ Pairs(e.request.query) = Pairs(e.config.request.query)
    /\ Pairs(e.request.headers) = Pairs(e.config.request.params)
    /\ e.request.body = e.config.request.body

\* An endpoint was built from a configuration that declares headers other
\* than its params.
EndpointWithHeadersBuilt ==
  \E e \in EndpointsHeld :
    /\ e.config = ReplaceUserConfig
    /\ e.config.request.headers # e.config.request.params
    /\ e.request.headers = e.config.request.params

\* OpenapiEndpoints.get(path, method) of an object finds an endpoint.
Holds(state, name, path, method) ==
  /\ path \in DOMAIN state.maps[name]
  /\ method \in DOMAIN state.heap[state.maps[name][path]]

\* The endpoint OpenapiEndpoints.get(path, method) of an object returns.
Held(state, name, path, method) == state.heap[state.maps[name][path]][method]

IndexPaths == {config.path : config \in IndexConfigs}
IndexMethods == {config.method : config \in IndexConfigs}

\* The step leaves what left and right hold as it was.
InputsUnchanged ==
  /\ View(endpointIndexes', "left") = View(IndexesNow, "left")
  /\ View(endpointIndexes', "right") = View(IndexesNow, "right")

\* The merged index holds the endpoints of left and of right, right's where
\* both hold one.
MergedHoldsBoth ==
  \A path \in IndexPaths, method \in IndexMethods :
    /\ Holds(endpointIndexes', "merged", path, method) <=>
         (Holds(IndexesNow, "left", path, method) \/ Holds(IndexesNow, "right", path, method))
    /\ Holds(IndexesNow, "right", path, method) =>
         Held(endpointIndexes', "merged", path, method) = Held(IndexesNow, "right", path, method)
    /\ (Holds(IndexesNow, "left", path, method) /\ ~Holds(IndexesNow, "right", path, method)) =>
         Held(endpointIndexes', "merged", path, method) = Held(IndexesNow, "left", path, method)

\* C30: OpenapiEndpoints.merge(left, right) returns an index with every
\* endpoint of either input, right's where both define the path and method,
\* and leaves both inputs unchanged; adding an endpoint to the merged index
\* afterwards changes neither left nor right.
C30_MergeLeavesInputsUnchanged ==
  [][/\ MergeCall => (MergedHoldsBoth /\ InputsUnchanged)
     /\ (\E config \in IndexConfigs : EndpointCall("merged", config)) => InputsUnchanged]_vars

\* left and right held different endpoints for one path and method when they
\* were merged, and the endpoint the merged index had taken from right was
\* then replaced in the merged index.
C30_Witness ==
  /\ endpointIndexes.kind = "endpoints"
  /\ endpointIndexes.made
  /\ \E path \in IndexPaths :
       /\ Holds(endpointIndexes, "left", path, "get")
       /\ Holds(endpointIndexes, "right", path, "get")
       /\ Holds(endpointIndexes, "merged", path, "get")
       /\ Held(endpointIndexes, "left", path, "get") # Held(endpointIndexes, "right", path, "get")
       /\ Held(endpointIndexes, "merged", path, "get") # Held(endpointIndexes, "right", path, "get")

----------------------------------------------------------------------------
\* The dispatch table and the registry

\* The methods and paths handle can dispatch to: the routes of byPathMap and
\* of patternList of every method.
Dispatchable ==
  UNION {{<<M, routesByUppercasedMethodMap[M].byPathMap[p].path>> :
            p \in DOMAIN routesByUppercasedMethodMap[M].byPathMap}
           \cup {<<M, routesByUppercasedMethodMap[M].patternList[i].path>> :
                   i \in 1..Len(routesByUppercasedMethodMap[M].patternList)} :
         M \in DOMAIN routesByUppercasedMethodMap}

\* The places of the route definitions of a method and path in the registry.
DefinedAt(M, path) ==
  {i \in 1..Len(definitions) :
     /\ definitions[i].type = "route"
     /\ Upper(definitions[i].route.method) = M
     /\ definitions[i].route.path = path}

\* Every dispatchable route has one route definition, and a document
\* generated from the registry lists it under paths.
DispatchableRoutesAreDefined ==
  /\ \A route \in Dispatchable : Cardinality(DefinedAt(route[1], route[2])) = 1
  /\ Len(definitions) = Cardinality(Dispatchable)
  /\ generateDocument(definitions).ok =>
       \A route \in Dispatchable :
         \E entry \in generateDocument(definitions).paths :
           entry[1] = route[2] /\ Upper(entry[2]) = route[1]

\* A registration that returned the router appended one route definition of
\* its method and path; one that threw appended none.
RegistrationAppendsOne ==
  (lastCall = NoCall /\ lastCall' # NoCall) =>
    IF lastCall'.error = ""
    THEN /\ Len(definitions') = Len(definitions) + 1
         /\ SubSeq(definitions', 1, Len(definitions)) = definitions
         /\ definitions'[Len(definitions')].type = "route"
         /\ definitions'[Len(definitions')].route.method = lastCall'.method
         /\ definitions'[Len(definitions')].route.path = lastCall'.path
    ELSE definitions' = definitions

\* C29: every route the router can dispatch to is a route definition of the
\* registry: each successful registration on the router, and the document
\* route of the constructor, appends one route definition of the same method
\* and path, so that a document generated afterwards lists every
\* dispatchable method and path under paths.
C29_DispatchableRoutesAreDefined ==
  []DispatchableRoutesAreDefined /\ [][RegistrationAppendsOne]_vars

\* The document was generated from a registry of the document route, a route
\* of a literal path and a route of a path with placeholders, all of them
\* dispatchable.
C29_Witness ==
  /\ memoized.set
  /\ Cardinality(Dispatchable) >= 3
  /\ generateDocument(definitions).ok
  /\ Cardinality(generateDocument(definitions).paths) >= 3
  /\ \E M \in DOMAIN routesByUppercasedMethodMap :
       routesByUppercasedMethodMap[M].patternList # <<>>

----------------------------------------------------------------------------
\* The calls of the generator on schemas that refer to themselves

\* The most schema definitions of a registry converted call by call.
MaxRoots == 2

\* The deepest nesting of generateSimpleSchema calls followed.
MaxDepth == 5

\* z.lazy(getter): a schema that names the schema its getter returns.
ZodLazy(getter) == [ZodType("lazy", <<>>, <<>>, "") EXCEPT !.value = getter]

\* A category with sub-categories: the object refers to itself through lazy.
SchemaCategory ==
  register("Category",
           ZodObject(<<Prop("name", ZodString), Prop("owner", SchemaA),
                       Prop("sub", ZodArray(ZodLazy("Category")))>>))

\* A tree registered as the lazy schema itself, its getter returning the
\* object whose children are trees.
SchemaTree == register("Tree", ZodLazy("TreeBody"))
TreeBody == ZodObject(<<Prop("children", ZodArray(SchemaTree))>>)

\* A list of categories.
SchemaCatalog == register("Catalog", ZodArray(SchemaCategory))

\* The schema the getter of a lazy schema returns.
getter(name) ==
  CASE name = "Category" -> SchemaCategory
    [] name = "TreeBody" -> TreeBody

RootSchemas == {SchemaA, SchemaB, SchemaCategory, SchemaTree, SchemaCatalog, SchemaWeapon}

\* The registries converted: up to MaxRoots schema definitions.
RootRegistries ==
  UNION {[1..n -> {SchemaDefinition(schema) : schema \in RootSchemas}] : n \in 0..MaxRoots}

\* unwrapChained, following a lazy schema to what its getter returns.
unwrapChained_Lazy(schema) ==
  IF schema.kind = "lazy" THEN getter(schema.value) ELSE schema

\* unwrapChained: optional, nullable, default and refinement wrappers are
\* taken off (they are the flags of a schema here); a schema of any other
\* type, a lazy one too, is returned as it is.
unwrapChained(schema) == schema

\* The refId of zodSchema._def.openapi, or else of innerSchema._def.openapi.
MetadataRefId(zodSchema) ==
  IF zodSchema.refId # "" THEN zodSchema.refId ELSE unwrapChained(zodSchema).refId

\* The schemas toOpenapiSchema calls the generator on: the values of the
\* shape of an object, the item of an array, the options of a union.
Children(schema) ==
  CASE schema.kind = "object" -> [i \in 1..Len(schema.shape) |-> schema.shape[i].schema]
    [] schema.kind \in {"array", "discriminatedUnion"} -> schema.options
    [] OTHER -> <<>>

\* toOpenapiSchema has a branch for the type.
Known(schema) ==
  schema.kind \in {"string", "number", "boolean", "literal", "object", "array",
                   "discriminatedUnion"}

\* A call of generateSimpleSchema: its schema, the schema toOpenapiSchema
\* works on, and the child it calls the generator on next (0 at entry).
Frame(schema) == [schema |-> schema, inner |-> unwrapChained(schema), next |-> 0]

\* generateDocument is running.
Converting == generated.kind = "converting"
Top == generated.stack[Len(generated.stack)]
Popped == SubSeq(generated.stack, 1, Len(generated.stack) - 1)

\* new OpenapiGenerator(definitions).generateDocument(config) is called.
BeginGeneration(defs) ==
  /\ ~Converting
  /\ generated' = [kind |-> "converting", definitions |-> defs,
                   pending |-> sortDefinitions(defs), stack |-> <<>>,
                   schemaRefs |-> {}, references |-> 0]
  /\ UNCHANGED <<definitions, routesByUppercasedMethodMap, defaultValidationErrorHandler,
                 memoized, created, handles, last, lastCall, fetched, endpointIndexes>>

\* forEach takes the next definition: generateSchemaDefinition calls
\* generateSimpleSchema on its schema.
NextDefinition ==
  /\ Converting
  /\ generated.stack = <<>>
  /\ generated.pending # <<>>
  /\ generated' = [generated EXCEPT !.stack = <<Frame(Head(generated.pending).schema)>>,
                                    !.pending = Tail(@)]
  /\ UNCHANGED <<definitions, routesByUppercasedMethodMap, defaultValidationErrorHandler,
                 memoized, created, handles, last, lastCall, fetched, endpointIndexes>>

\* generateSimpleSchema at its entry: a refId found in schemaRefs returns a
\* reference; a type toOpenapiSchema has no branch for throws
\* UnknownZodTypeError; any other type goes on to its children.
Enter ==
  /\ Converting
  /\ generated.stack # <<>>
  /\ Top.next = 0
  /\ generated' =
       IF MetadataRefId(Top.schema) \in generated.schemaRefs
       THEN [generated EXCEPT !.stack = Popped, !.references = 1]
       ELSE IF ~Known(Top.inner)
       THEN [generated EXCEPT !.kind = "threw", !.stack = <<>>, !.pending = <<>>]
       ELSE [generated EXCEPT !.stack[Len(generated.stack)].next = 1]
  /\ UNCHANGED <<definitions, routesByUppercasedMethodMap, defaultValidationErrorHandler,
                 memoized, created, handles, last, lastCall, fetched, endpointIndexes>>

\* toOpenapiSchema calls the generator on the next child.
Descend ==
  /\ Converting
  /\ generated.stack # <<>>
  /\ Top.next \in 1..Len(Children(Top.inner))
  /\ Len(generated.stack) < MaxDepth
  /\ generated' =
       [generated EXCEPT !.stack = Append([@ EXCEPT ![Len(@)].next = Top.next + 1],
                                          Frame(Children(Top.inner)[Top.next]))]
  /\ UNCHANGED <<definitions, routesByUppercasedMethodMap, defaultValidationErrorHandler,
                 memoized, created, handles, last, lastCall, fetched, endpointIndexes>>

\* generateSimpleSchema returns the converted schema; returned to
\* generateSchemaDefinition it is stored: this.schemaRefs[refId] = result.
Return ==
  /\ Converting
  /\ generated.stack # <<>>
  /\ Top.next > Len(Children(Top.inner))
  /\ generated' =
       [generated EXCEPT !.stack = Popped,
                         !.schemaRefs = IF Len(generated.stack) = 1
                                        THEN @ \cup {Top.schema.refId} ELSE @]
  /\ UNCHANGED <<definitions, routesByUppercasedMethodMap, defaultValidationErrorHandler,
                 memoized, created, handles, last, lastCall, fetched, endpointIndexes>>

\* forEach is through: generateDocument returns the document.
Finish ==
  /\ Converting
  /\ generated.stack = <<>>
  /\ generated.pending = <<>>
  /\ generated' = [generated EXCEPT !.kind = "done"]
  /\ UNCHANGED <<definitions, routesByUppercasedMethodMap, defaultValidationErrorHandler,
                 memoized, created, handles, last, lastCall, fetched, endpointIndexes>>

\* A step of the running generateDocument call.
GenerationStep == NextDefinition \/ Enter \/ Descend \/ Return \/ Finish

InitConversion == Construct("undefined")

NextConversion ==
  \/ \E defs \in RootRegistries : BeginGeneration(defs)
  \/ NextDefinition
  \/ Enter
  \/ Descend
  \/ Return
  \/ Finish

SpecConversion == InitConversion /\ [][NextConversion]_vars

\* generateDocument is synchronous code: once called it goes on, call after
\* call, with nothing to wait for.
SpecConversionFair == SpecConversion /\ WF_vars(GenerationStep)

\* The generateDocument call has ended, in a document or in an error thrown.
Ended == generated.kind \in {"done", "threw"} /\ "pending" \in DOMAIN generated

\* C28: the generation of a document terminates for every registry, one whose
\* schemas refer to themselves included: every generateDocument call ends in
\* a document or in a generation error.
C28_GenerationTerminates == Converting ~> Ended

\* The calls never nest deeper than the schemas do: the bound on the depth
\* stops no call.
DepthNotReached == Converting => Len(generated.stack) < MaxDepth

\* The call by call generation ends as generateDocument computed at once.
EndsAsGenerateDocument ==
  Ended =>
    (generated.kind = "done") = (GenerateZodDocument(generated.definitions).error.error = "")

\* The generation of a registry with a schema that refers to itself ended,
\* after a reference to a schema generated before was emitted.
C28_Witness ==
  /\ Ended
  /\ generated.definitions = <<SchemaDefinition(SchemaA), SchemaDefinition(SchemaCategory)>>
  /\ generated.references = 1
  /\ generated.schemaRefs = {"A"}

=============================================================================
